---- MODULE Spec2Model ----
(***************************************************************************)
(* Versioned frame/slot store of dangyogi/frames: the tables Version,      *)
(* Version_requires, Slot and Slot_versions, the version object built by   *)
(* at_versions (src/frames.py class version) and its resolution and        *)
(* mutation methods.                                                       *)
(***************************************************************************)
EXTENDS Integers, Sequences, FiniteSets, TLC

\* ---------------------------------------------------------------- bounds
\* most rows the Version table grows to
MaxVersions == 3
\* versions in the database whose slots are worked on
StoreVersions == 2
\* most rows the Slot table grows to
MaxSlots == 3
\* longest list of values handed to create_list
MaxList == 2
\* frames of the database whose inheritance is looked up
MaxFrames == 3
\* longest list a caller lets a held list grow to
MaxHeld == 4
\* largest index handed to insert and splice
MaxIndex == 2

\* ------------------------------------------------------- program constants
\* create_list numbers value_order from 1000 (enumerate(values, 1000))
ListBase == 1000

\* ------------------------------------------------------------ Python values
\* A Python/SQLite value is None, a number, or the n-th string of the strings
\* in use, numbered in their lexicographic order. A number is a double of
\* [512, 1024), where doubles are 2^-43 apart: <<"num", w, hi, lo>> is
\* w + (hi * 2^22 + lo) / 2^43 with hi < 2^21 and lo < 2^22.
PyNone == <<"none", 0>>
Num(n) == <<"num", n, 0, 0>>
Str(n) == <<"str", n>>
\* '<DELETED>' sorts before every lower-case word
DELETED == Str(0)
Blue == Str(1)
Red == Str(2)
TrueStr == Str(3)
FalseStr == Str(4)
TypeOf(x) == x[1]

\* ------------------------------------------------------------ Python floats
HiBase == 2 ^ 21
LoBase == 2 ^ 22
\* the double of w whole units, hi units of 2^-21 and lo units of 2^-43
Norm(w, hi, lo) ==
    LET hi2 == hi + (lo \div LoBase)
    IN  <<"num", w + (hi2 \div HiBase), hi2 % HiBase, lo % LoBase>>
\* a < b for two numbers
NumLess(a, b) ==
    \/ a[2] < b[2]
    \/ a[2] = b[2] /\ a[3] < b[3]
    \/ a[2] = b[2] /\ a[3] = b[3] /\ a[4] < b[4]
\* a < b for two values of one type
ValueLess(a, b) == IF TypeOf(a) = "num" THEN NumLess(a, b) ELSE a[2] < b[2]
\* the doubles the model holds exactly
InRange(a) == 512 <= a[2] /\ a[2] < 1024
\* a + b and a - b where the result is a double of the same spacing
NumAdd(a, b) == Norm(a[2] + b[2], a[3] + b[3], a[4] + b[4])
NumSub(a, b) == Norm(a[2] - b[2], a[3] - b[3], a[4] - b[4])
\* (a + b) / 2 for a and b of [512, 1024): a + b lies in [1024, 2048), where
\* doubles are 2^-42 apart, so an odd count of 2^-43 is rounded to the
\* neighbour whose last bit is 0; the division by 2 is exact
Midpoint(a, b) ==
    LET w == a[2] + b[2]
        hi == a[3] + b[3]
        lo == a[4] + b[4]
        odd == lo % 2
        \* half of the sum after the rounding: one of the two neighbours of
        \* the odd count has an even half
        half_lo == IF odd = 1 /\ (lo \div 2) % 2 = 1 THEN (lo \div 2) + 1
                   ELSE lo \div 2
    IN  Norm(w \div 2,
             (w % 2) * (HiBase \div 2) + (hi \div 2),
             (hi % 2) * (LoBase \div 2) + half_lo)
\* a / d and k * a where the result is exact
NumDivides(a, d) ==
    ((((a[2] % d) * HiBase + a[3]) % d) * LoBase + a[4]) % d = 0
NumDiv(a, d) ==
    LET hi == (a[2] % d) * HiBase + a[3]
        lo == (hi % d) * LoBase + a[4]
    IN  Norm(a[2] \div d, hi \div d, lo \div d)
NumTimes(k, a) == Norm(k * a[2], k * a[3], k * a[4])
\* the value '$g' naming frame g: '$' sorts before '<', '$1' before '$2'
Ref(g) == Str(g - MaxFrames - 1)
IsRef(value) == TypeOf(value) = "str" /\ value[2] < 0
RefTarget(value) == value[2] + MaxFrames + 1

\* the values create_slot and create_list are given, the values update_slot
\* is given, and the list positions callers pass
Values == {Red}
NewValues == {Blue}
Orders == {PyNone, Num(ListBase)}
Frames == {1}
Names == {"color"}
\* str.upper() on the slot names in use
Upper(name) ==
    CASE name = "color" -> "COLOR"
      [] name = "ako" -> "AKO"
      [] name = "isa" -> "ISA"
      [] name = "size" -> "SIZE"
      [] name = "items" -> "ITEMS"
      [] name = "frame_name" -> "FRAME_NAME"
      [] name = "splice" -> "SPLICE"
      [] OTHER -> name
\* str.lower() on the slot names in use
Lower(name) ==
    CASE name = "AKO" -> "ako"
      [] name = "ISA" -> "isa"
      [] name = "ITEMS" -> "items"
      [] name = "FRAME_NAME" -> "frame_name"
      [] name = "SPLICE" -> "splice"
      [] OTHER -> name
\* rank of an upper-cased name in string order
NameRank(uname) ==
    CASE uname = "AKO" -> 1
      [] uname = "COLOR" -> 2
      [] uname = "FRAME_NAME" -> 3
      [] uname = "ISA" -> 4
      [] uname = "ITEMS" -> 5
      [] uname = "SIZE" -> 6
      [] uname = "SPLICE" -> 7
      [] OTHER -> 8

Statuses == {"proposed", "final"}
\* status a Version row gets when the INSERT names none
DefaultStatus == "proposed"

\* ------------------------------------------------------------------- state
VARIABLES
    Version,           \* table Version: Version[id] = [status], name of id is id
    Version_requires,  \* table Version_requires: {<<version_id, required_version_id>>}
    Slot,              \* table Slot: Slot[slot_id] = [frame_id, name, value_order, value]
    Slot_versions,     \* table Slot_versions: {<<slot_id, version_id>>}
    ctx,               \* the version object in use (NoCtx before at_versions)
    result,            \* what the last call returned or raised
    some_slot_list,    \* the slot_list object a caller holds (NoList: none)
    db_conn,           \* the db.py connection: its transaction and attributes
    some_version_obj   \* the version_obj a caller holds (NoVersionObj: none)

vars == <<Version, Version_requires, Slot, Slot_versions, ctx, result,
          some_slot_list, db_conn, some_version_obj>>

NoCtx == [version_ids |-> {}, frozen |-> TRUE, required_versions |-> {},
          required_map |-> <<>>, built |-> FALSE]
NoResult == [op |-> "none", err |-> "none", ret |-> PyNone]
NoList == [frame_id |-> 0, name |-> "none", raw_slots |-> <<>>,
           cls |-> "none"]

VersionIds == 1 .. Len(Version)
SlotIds == 1 .. Len(Slot)

\* ------------------------------------------------------ integer set helpers
\* The one member of a singleton set. TheOne({e(x) : x \in {v}}) is e(v) with
\* v worked out once, as Python works out a local variable once.
TheOne(S) == CHOOSE x \in S : TRUE

Min(S) == CHOOSE x \in S : \A y \in S : x <= y

RECURSIVE SetToSeq(_)
\* the members of a set of integers in ascending order
SetToSeq(S) == IF S = {} THEN <<>> ELSE <<Min(S)>> \o SetToSeq(S \ {Min(S)})

\* ------------------------------------------- version.get_all_required_versions
RECURSIVE ReqRowsFrom(_)
ReqRowsFrom(rows) ==
    LET next == rows \cup {e \in Version_requires :
                              \E r \in rows : e[1] = r[2]}
    IN  IF next = rows THEN rows ELSE ReqRowsFrom(next)

\* faulty variant of ReqRows: the seed rows alone, without the recursive step
ReqRowsNoRecursion(version_ids) ==
    {e \in Version_requires : e[1] \in version_ids}

\* the rows (ver_id, req_ver_id) of the WITH RECURSIVE req query
ReqRows(version_ids) ==
    ReqRowsFrom({e \in Version_requires : e[1] \in version_ids})

\* UNION ALL never drops a row: the query ends only if no version reached
\* from version_ids requires itself, directly or through others
RECURSIVE ReachedBy(_, _)
ReachedBy(S, n) ==
    IF n = 0 THEN S
    ELSE ReachedBy({e[2] : e \in {x \in Version_requires : x[1] \in S}}, n - 1)
QueryEnds(version_ids) ==
    ReachedBy(version_ids, Cardinality(Version_requires) + 1) = {}

\* groupby(rows, ver_id): {version_id: set(req_ver_id)}
GroupRows(rows) ==
    [v \in {r[1] : r \in rows} |-> {r[2] : r \in {x \in rows : x[1] = v}}]

RECURSIVE fill_req(_, _, _)
\* fill_req(req_versions, remaining_req_versions) over required_map: the
\* value req_versions ends with
fill_req(required_map, req_versions, remaining) ==
    IF remaining = {} THEN req_versions
    ELSE LET req_ver == Min(remaining)
             rest == remaining \ {req_ver}
         IN  IF req_ver \in DOMAIN required_map
             THEN LET deeper == required_map[req_ver] \ req_versions
                      filled == fill_req(required_map,
                                         req_versions \cup deeper, deeper)
                  IN  fill_req(required_map, filled, rest)
             ELSE fill_req(required_map, req_versions, rest)

RECURSIVE FillAll(_, _)
\* for ver_id, req_versions in required_map.items(): fill_req(...), in the
\* order of the keys (ORDER BY ver_id), each set filled in place
FillAll(required_map, keys) ==
    IF keys = <<>> THEN required_map
    ELSE LET k == Head(keys)
             filled == fill_req(required_map, required_map[k], required_map[k])
         IN  FillAll([required_map EXCEPT ![k] = filled], Tail(keys))

\* returns (all_required, required_map)
get_all_required_versions(version_ids) ==
    LET raw == GroupRows(ReqRows(version_ids))
        required_map == FillAll(raw, SetToSeq(DOMAIN raw))
        all_required == version_ids \cup DOMAIN required_map
                        \cup UNION {required_map[v] : v \in DOMAIN required_map}
    IN  [all_required |-> all_required, required_map |-> required_map]

\* -------------------------------------------------- version.lookup_version_ids
\* faulty variant of MissingNames: the first missing name alone
MissingNamesFirstOnly(version_names) ==
    IF version_names \ VersionIds = {} THEN {}
    ELSE {Min(version_names \ VersionIds)}
\* names of version_names that no Version row has
MissingNames(version_names) == version_names \ VersionIds
\* faulty variant of LookupFrozen: the required versions count as well
LookupFrozenRequired(version_names) ==
    ~ \E v \in get_all_required_versions(version_names \cap VersionIds)
                   .all_required :
          Version[v].status = "proposed"
\* frozen stays True unless a row found has status 'proposed'
LookupFrozen(version_names) ==
    ~ \E v \in version_names \cap VersionIds : Version[v].status = "proposed"

\* ------------------------------------------------------------ version.__init__
\* the fields of version(db_conn, user_id, *version_names) for names that
\* all exist
version_object(version_names) ==
    LET req == get_all_required_versions(version_names)
    IN  [version_ids |-> version_names,
         frozen |-> LookupFrozen(version_names),
         required_versions |-> req.all_required,
         required_map |-> req.required_map,
         built |-> TRUE]

\* frame_connection.at_versions(user_id, *version_names)
AtVersions(version_names) ==
    /\ version_names # {}
    /\ IF MissingNames(version_names) # {}
       THEN /\ result' = [op |-> "at_versions", err |-> "names_not_found",
                          ret |-> MissingNames(version_names)]
            /\ UNCHANGED ctx
       ELSE /\ QueryEnds(version_names)
            /\ ctx' = version_object(version_names)
            /\ result' = [op |-> "at_versions", err |-> "none", ret |-> PyNone]
    /\ UNCHANGED <<some_slot_list, Version, Version_requires, Slot, Slot_versions,
                   db_conn, some_version_obj>>

\* ------------------------------------------------------------- load_versions
\* one entry of objects['versions']: INSERT INTO Version, then one
\* Version_requires row per name of 'requires' that a Version row has (the
\* row just inserted is one of them)
LoadVersions(requires) ==
    /\ Len(Version) < MaxVersions
    /\ LET version_id == Len(Version) + 1
       IN  /\ Version' = Append(Version, [status |-> DefaultStatus])
           /\ Version_requires' = Version_requires \cup
                  {<<version_id, r>> : r \in requires \cap (1 .. version_id)}
    /\ result' = [op |-> "load_versions", err |-> "none", ret |-> PyNone]
    /\ UNCHANGED <<some_slot_list, Slot, Slot_versions, ctx,
                   db_conn, some_version_obj>>

\* ------------------------------------------------------ load_change_versions
\* load_change_versions that takes the status of any version as changeable
LoadChangeVersionsAnyStatus(name, value) ==
    /\ name \in VersionIds
    /\ Version' = [Version EXCEPT ![name].status = value]
    /\ result' = [op |-> "load_change_versions", err |-> "none",
                  ret |-> PyNone]
    /\ UNCHANGED <<some_slot_list, Version_requires, Slot, Slot_versions, ctx,
                   db_conn, some_version_obj>>

\* one change {name: {status: value}}
LoadChangeVersions(name, value) ==
    /\ name \in VersionIds
    /\ LET current_status == Version[name].status
       IN  IF current_status = "final"
           THEN IF value # "final"
                THEN /\ result' = [op |-> "load_change_versions",
                                   err |-> "final_status", ret |-> PyNone]
                     /\ UNCHANGED Version
                ELSE /\ result' = [op |-> "load_change_versions",
                                   err |-> "none", ret |-> PyNone]
                     /\ UNCHANGED Version
           ELSE /\ Version' = [Version EXCEPT ![name].status = value]
                /\ result' = [op |-> "load_change_versions", err |-> "none",
                              ret |-> PyNone]
    /\ UNCHANGED <<some_slot_list, Version_requires, Slot, Slot_versions, ctx,
                   db_conn, some_version_obj>>

\* --------------------------------------------------------- version.better_fit
\* faulty variant of better_fit: the test "other_v is better than v" is left out
better_fit_no_worse(c, versions, other_versions) ==
    LET required_map == c.required_map
        better(v, w) == v # w /\ v \in DOMAIN required_map
                               /\ w \in required_map[v]
        pairs == versions \X other_versions
        num_matches == Cardinality({p \in pairs : p[1] = p[2]})
        num_better == Cardinality({p \in pairs : better(p[1], p[2])})
    IN  IF Cardinality(other_versions) > Cardinality(versions) THEN FALSE
        ELSE IF num_better + num_matches < Cardinality(other_versions)
             THEN FALSE
        ELSE IF num_matches = Cardinality(other_versions)
                /\ Cardinality(other_versions) = Cardinality(versions)
             THEN FALSE
        ELSE num_better # 0
             \/ Cardinality(versions) > Cardinality(other_versions)

\* truth value of better_fit(slot_id, versions, other_slot_id, other_versions)
better_fit(c, versions, other_versions) ==
    LET required_map == c.required_map
        better(v, w) == v # w /\ v \in DOMAIN required_map
                               /\ w \in required_map[v]
        worse(v, w) == v # w /\ ~ better(v, w)
                             /\ w \in DOMAIN required_map
                             /\ v \in required_map[w]
        pairs == versions \X other_versions
        num_matches == Cardinality({p \in pairs : p[1] = p[2]})
        num_better == Cardinality({p \in pairs : better(p[1], p[2])})
    IN  IF Cardinality(other_versions) > Cardinality(versions) THEN FALSE
        ELSE IF \E p \in pairs : worse(p[1], p[2]) THEN FALSE
        ELSE IF num_better + num_matches < Cardinality(other_versions)
             THEN FALSE
        ELSE IF num_matches = Cardinality(other_versions)
                /\ Cardinality(other_versions) = Cardinality(versions)
             THEN FALSE
        ELSE num_better # 0
             \/ Cardinality(versions) > Cardinality(other_versions)

\* a caller asks the version object whether `versions` fits better than
\* `other_versions`
BetterFitCall(versions, other_versions) ==
    /\ ctx.built
    /\ versions # {} /\ other_versions # {}
    /\ versions \subseteq ctx.required_versions
    /\ other_versions \subseteq ctx.required_versions
    /\ result' = [op |-> "better_fit", err |-> "none",
                  ret |-> better_fit(ctx, versions, other_versions)]
    /\ UNCHANGED <<some_slot_list, Version, Version_requires, Slot, Slot_versions, ctx,
                   db_conn, some_version_obj>>

\* ------------------------------------------- version.select_slot_ids_by_version
\* the version_ids Slot_versions links to slot_id
SlotVersionIds(slot_id) == {x[2] : x \in {y \in Slot_versions : y[1] = slot_id}}

\* SQL '=': NULL is equal to nothing, itself included
SqlEq(a, b) == a # PyNone /\ b # PyNone /\ a = b

\* INNER JOIN Slot s USING (frame_id, name, value_order)
SameKeySql(s, t) ==
    /\ Slot[s].frame_id = Slot[t].frame_id
    /\ Slot[s].name = Slot[t].name
    /\ SqlEq(Slot[s].value_order, Slot[t].value_order)

\* first SELECT: the slots of desired_slots that have a Slot_versions row
DesiredFetched(desired) == {s \in desired : SlotVersionIds(s) # {}}

\* second SELECT: the slots that share (frame_id, name, value_order) with
\* another slot of desired_slots; `present` are the slot_ids of table Slot
UndesiredFetched(present, desired) ==
    {s \in present : /\ SlotVersionIds(s) # {}
                     /\ \E ds \in desired : ds # s /\ SameKeySql(ds, s)}

Fetched(present, desired) ==
    DesiredFetched(desired) \cup UndesiredFetched(present, desired)

\* ----------------------------------------------- version.select_best_matches
\* the groupby key (row[0], row[1].upper(), row[2])
PyKey(s) == <<Slot[s].frame_id, Upper(Slot[s].name), Slot[s].value_order>>

\* sorted() compares the value_orders of two rows of one frame and name:
\* '<' between None, a number and a str raises TypeError
SortRaises(rows) ==
    \E s \in rows, t \in rows :
        /\ PyKey(s)[1] = PyKey(t)[1]
        /\ PyKey(s)[2] = PyKey(t)[2]
        /\ TypeOf(PyKey(s)[3]) # TypeOf(PyKey(t)[3])

\* order of two keys in the sorted rows (value_orders of one type)
KeyLess(k1, k2) ==
    \/ k1[1] < k2[1]
    \/ k1[1] = k2[1] /\ NameRank(k1[2]) < NameRank(k2[2])
    \/ k1[1] = k2[1] /\ k1[2] = k2[2] /\ ValueLess(k1[3], k2[3])

\* the groups (slot_id, value, desired) of one slot, in the order fetched:
\* its desired rows, then its undesired rows (value NULL, desired 0)
GroupsOfSlot(present, desired, s) ==
    (IF s \in DesiredFetched(desired)
     THEN <<[slot_id |-> s, value |-> Slot[s].value, desired |-> TRUE,
             version_ids |-> SlotVersionIds(s)]>>
     ELSE <<>>)
    \o
    (IF s \in UndesiredFetched(present, desired)
     THEN <<[slot_id |-> s, value |-> PyNone, desired |-> FALSE,
             version_ids |-> SlotVersionIds(s)]>>
     ELSE <<>>)

RECURSIVE GroupsOfSlots(_, _, _)
GroupsOfSlots(present, desired, slot_ids) ==
    IF slot_ids = <<>> THEN <<>>
    ELSE GroupsOfSlot(present, desired, Head(slot_ids))
         \o GroupsOfSlots(present, desired, Tail(slot_ids))

\* matching_slots of one key: the groups whose version_ids are a subset of
\* required_versions, by ascending slot_id
matching_slots(c, present, desired, key) ==
    LET IsMatch(g) == g.version_ids \subseteq c.required_versions
    IN  SelectSeq(GroupsOfSlots(present, desired,
                      SetToSeq({s \in Fetched(present, desired) :
                                   PyKey(s) = key})),
                  IsMatch)

\* the indexes of matching_slots that are better_fit than every entry of
\* another slot_id
BestIndexes(c, m) ==
    {i \in 1 .. Len(m) :
        \A j \in 1 .. Len(m) :
            m[j].slot_id # m[i].slot_id =>
                better_fit(c, m[i].version_ids, m[j].version_ids)}

\* what the loop body does for one key: nothing, a best match, or a raise
KeyOutcome(c, present, desired, key) ==
    LET Outcome(m, best) ==
            IF Len(m) = 0
            THEN [kind |-> "empty", slot_id |-> 0, desired |-> FALSE]
            ELSE IF Len(m) = 1
                 THEN [kind |-> "best", slot_id |-> m[1].slot_id,
                       desired |-> m[1].desired]
            ELSE IF Cardinality(best) >= 2
                 THEN [kind |-> "impossible_conflict", slot_id |-> 0,
                       desired |-> FALSE]
            ELSE IF Cardinality(best) = 1
                 THEN LET i == CHOOSE i \in best : TRUE
                      IN  [kind |-> "best", slot_id |-> m[i].slot_id,
                           desired |-> m[i].desired]
            ELSE [kind |-> "conflict", slot_id |-> 0, desired |-> FALSE]
    IN  TheOne({TheOne({Outcome(m, best) : best \in {BestIndexes(c, m)}}) :
                   m \in {matching_slots(c, present, desired, key)}})

IsRaise(outcome) == outcome.kind \in {"impossible_conflict", "conflict"}

\* select_slot_ids_by_version(where_exp): [err, ret], ret the slot_ids of the
\* (frame_id, slot_id, value) returned; `desired` are the slots where_exp
\* matches. The keys are gone through in sorted order, the first raise ends
\* the call.
select_slot_ids_by_version(c, present, desired) ==
    LET Selected(rows, out) ==
            LET raising == {k \in DOMAIN out : IsRaise(out[k])}
            IN  IF SortRaises(rows) THEN [err |-> "TypeError", ret |-> {}]
                ELSE IF raising # {}
                     THEN LET first == CHOOSE k \in raising :
                                  \A k2 \in raising \ {k} : KeyLess(k, k2)
                          IN  [err |-> out[first].kind, ret |-> {}]
                ELSE [err |-> "none",
                      ret |-> {out[k].slot_id :
                                  k \in {x \in DOMAIN out :
                                            /\ out[x].kind = "best"
                                            /\ out[x].desired}}]
    IN  TheOne({Selected(rows,
                         [k \in {PyKey(s) : s \in rows} |->
                             KeyOutcome(c, present, desired, k)]) :
                   rows \in {Fetched(present, desired)}})

\* get_raw_frame(frame_id) over the slots `present`: select_slots_by_version
\* with where_exp "frame_id = :frame_id", the raw slots keyed by PyKey
get_raw_frame(c, present, frame_id) ==
    select_slot_ids_by_version(c, present,
        {s \in present : Slot[s].frame_id = frame_id})

GetRawFrame(frame_id) ==
    /\ ctx.built
    /\ LET got == get_raw_frame(ctx, SlotIds, frame_id)
       IN  result' = [op |-> "get_raw_frame", err |-> got.err, ret |-> got.ret]
    /\ UNCHANGED <<some_slot_list, Version, Version_requires, Slot, Slot_versions, ctx,
                   db_conn, some_version_obj>>

\* select_slot_ids_by_version("value = :value", dict(value=value)): a filter
\* narrower than the rows of a frame
SelectSlotIdsByVersion(value) ==
    /\ ctx.built
    /\ LET got == select_slot_ids_by_version(ctx, SlotIds,
                      {s \in SlotIds : Slot[s].value = value})
       IN  result' = [op |-> "select_slot_ids_by_version", err |-> got.err,
                      ret |-> got.ret, value |-> value]
    /\ UNCHANGED <<some_slot_list, Version, Version_requires, Slot,
                   Slot_versions, ctx, db_conn, some_version_obj>>

\* -------------------------------------------------------- version.create_slot
\* create_slot on the tables db = [Slot, Slot_versions]: [err, ret, db], ret
\* the slot_id of the raw_slot returned
create_slot(c, db, frame_id, name, value, value_order) ==
    IF c.frozen THEN [err |-> "frozen", ret |-> 0, db |-> db]
    ELSE LET slot_id == Len(db.Slot) + 1
         IN  [err |-> "none", ret |-> slot_id,
              db |-> [Slot |-> Append(db.Slot,
                          [frame_id |-> frame_id, name |-> name,
                           value_order |-> value_order, value |-> value]),
                      Slot_versions |-> db.Slot_versions \cup
                          {<<slot_id, v>> : v \in c.version_ids}]]

Db == [Slot |-> Slot, Slot_versions |-> Slot_versions]

CreateSlot(frame_id, name, value, value_order) ==
    /\ ctx.built
    /\ ~ ctx.frozen => Len(Slot) < MaxSlots
    /\ LET r == create_slot(ctx, Db, frame_id, name, value, value_order)
       IN  /\ Slot' = r.db.Slot
           /\ Slot_versions' = r.db.Slot_versions
           /\ result' = [op |-> "create_slot", err |-> r.err, ret |-> r.ret]
    /\ UNCHANGED <<some_slot_list, Version, Version_requires, ctx,
                   db_conn, some_version_obj>>

\* -------------------------------------------------------- version.create_list
RECURSIVE create_list(_, _, _, _, _, _)
\* the create_slot calls of create_list for values[i ..]: [err, ret, db], ret
\* the slot_ids of the slot_list returned
create_list(c, db, frame_id, name, values, i) ==
    IF i > Len(values) THEN [err |-> "none", ret |-> <<>>, db |-> db]
    ELSE LET r == create_slot(c, db, frame_id, name, values[i],
                              Num(ListBase + i - 1))
         IN  IF r.err # "none" THEN [err |-> r.err, ret |-> <<>>, db |-> r.db]
             ELSE LET rest == create_list(c, r.db, frame_id, name, values, i + 1)
                  IN  [err |-> rest.err, ret |-> <<r.ret>> \o rest.ret,
                       db |-> rest.db]

CreateList(frame_id, name, values) ==
    /\ ctx.built
    /\ ~ ctx.frozen => Len(Slot) + Len(values) <= MaxSlots
    /\ LET r == create_list(ctx, Db, frame_id, name, values, 1)
       IN  /\ Slot' = r.db.Slot
           /\ Slot_versions' = r.db.Slot_versions
           /\ result' = [op |-> "create_list", err |-> r.err, ret |-> r.ret]
    /\ UNCHANGED <<some_slot_list, Version, Version_requires, ctx,
                   db_conn, some_version_obj>>

\* -------------------------------------------------------- version.update_slot
\* [err, ret, db], ret the slot_id returned
update_slot(c, db, slot_id, value, value_order) ==
    IF c.frozen THEN [err |-> "frozen", ret |-> 0, db |-> db]
    ELSE IF SlotVersionIds(slot_id) = c.version_ids
         \* the UPDATE statement lacks a comma after ':value_order' and has
         \* one before WHERE: the database refuses it
         THEN [err |-> "OperationalError", ret |-> 0, db |-> db]
         \* create_slot(frame_id, name, value_order, value, description):
         \* the parameters of create_slot are (frame_id, name, value,
         \* value_order, description)
         ELSE create_slot(c, db, db.Slot[slot_id].frame_id,
                          db.Slot[slot_id].name, value_order, value)

\* whether update_slot(slot_id, ...) goes on to create_slot
TakesNewRowPath(c, slot_id) ==
    ~ c.frozen /\ SlotVersionIds(slot_id) # c.version_ids

UpdateSlot(slot_id, value, value_order) ==
    /\ ctx.built
    /\ slot_id \in SlotIds
    /\ TakesNewRowPath(ctx, slot_id) => Len(Slot) < MaxSlots
    /\ LET r == update_slot(ctx, Db, slot_id, value, value_order)
       IN  /\ Slot' = r.db.Slot
           /\ Slot_versions' = r.db.Slot_versions
           /\ result' = [op |-> "update_slot", err |-> r.err, ret |-> r.ret,
                         slot_id |-> slot_id]
    /\ UNCHANGED <<some_slot_list, Version, Version_requires, ctx,
                   db_conn, some_version_obj>>

\* -------------------------------------------------------- version.delete_slot
DeleteSlot(slot_id) ==
    /\ ctx.built
    /\ slot_id \in SlotIds
    /\ Slot' = [Slot EXCEPT ![slot_id].value = DELETED]
    /\ result' = [op |-> "delete_slot", err |-> "none", ret |-> 0]
    /\ UNCHANGED <<some_slot_list, Version, Version_requires, Slot_versions, ctx,
                   db_conn, some_version_obj>>

\* --------------------------------------------------------------- class frame
RECURSIVE SortByOrder(_)
\* sorted(raw_frame.items(), key=item[0][1:]) within one name: the slot_ids
\* by ascending value_order
SortByOrder(rows) ==
    IF rows = {} THEN <<>>
    ELSE LET s == CHOOSE s \in rows :
                      \A t \in rows \ {s} :
                          ~ ValueLess(Slot[t].value_order,
                                      Slot[s].value_order)
         IN  <<s>> \o SortByOrder(rows \ {s})

\* frame.__init__: raw_slots maps each upper-cased name of raw_frame to its
\* raw slot (value_order None) or to a slot_list of its raw slots
frame(frame_id, raw_frame) ==
    [frame_id |-> frame_id,
     raw_slots |->
        [uname \in {Upper(Slot[s].name) : s \in raw_frame} |->
            TheOne({[is_list |-> Slot[rows[1]].value_order # PyNone,
                     rows |-> rows] :
                       rows \in {SortByOrder({s \in raw_frame :
                                     Upper(Slot[s].name) = uname})}})]]

\* version.get_frame / read_frame: [err, frame]
get_frame(c, frame_id) ==
    TheOne({[err |-> got.err, frame |-> frame(frame_id, got.ret)] :
               got \in {get_raw_frame(c, SlotIds, frame_id)}})

NoRawSlot == [is_list |-> FALSE, rows |-> <<>>]
NotFound == [err |-> "AttributeError", ans |-> NoRawSlot]

\* faulty variant of IsDeleted: no value marks a deletion
IsDeletedNever(raw_slot) == FALSE

\* not isinstance(raw_slot, slot_list) and
\* raw_slot['value'].upper() == '<DELETED>'
IsDeleted(raw_slot) ==
    ~ raw_slot.is_list /\ Slot[raw_slot.rows[1]].value = DELETED

\* frame.get_raw_slot: the frame's own entry, [err, ans]
get_raw_slot(fr, slot_name, deleted_is_error) ==
    IF /\ Upper(slot_name) \in DOMAIN fr.raw_slots
       /\ ~ deleted_is_error \/ ~ IsDeleted(fr.raw_slots[Upper(slot_name)])
    THEN [err |-> "none", ans |-> fr.raw_slots[Upper(slot_name)]]
    ELSE NotFound

\* faulty variant of cook_raw_slot: '$' values are left as they are
cook_raw_slot_literal(c, raw_slot) ==
    [err |-> "none", is_frame |-> FALSE, frame |-> frame(0, {})]

\* frame.cook_raw_slot: a value '$label' becomes the frame get_frame gives,
\* [err, is_frame, frame]
cook_raw_slot(c, raw_slot) ==
    IF ~ raw_slot.is_list /\ IsRef(Slot[raw_slot.rows[1]].value)
    THEN TheOne({[err |-> got.err, is_frame |-> got.err = "none",
                  frame |-> got.frame] :
                    got \in {get_frame(c,
                                RefTarget(Slot[raw_slot.rows[1]].value))}})
    ELSE [err |-> "none", is_frame |-> FALSE, frame |-> frame(0, {})]

\* faulty variant of IsaTryIsa: the isa frame goes on to its own isa link
IsaTryIsaKept == TRUE

\* try_isa handed to the isa frame: get_raw_slot_inherited(slot_name,
\* try_isa=False)
IsaTryIsa == FALSE

RECURSIVE get_raw_slot_inherited(_, _, _, _)
\* frame.get_raw_slot_inherited: [err, ans]. Parent(link, flag) is one of the
\* two inner blocks: `returned` when the call ends there, by a return or by
\* an exception that is not caught.
get_raw_slot_inherited(c, fr, slot_name, try_isa) ==
    LET own == get_raw_slot(fr, slot_name, FALSE)
        Skipped == [returned |-> FALSE, res |-> NotFound]
        Asked(cooked, flag) ==
            TheOne({IF r.err = "AttributeError" THEN Skipped
                    ELSE [returned |-> TRUE, res |-> r] :
                       r \in {get_raw_slot_inherited(c, cooked.frame,
                                                     slot_name, flag)}})
        Parent(link, flag) ==
            LET raw == get_raw_slot(fr, link, TRUE)
            IN  \* the link is '<DELETED>': AttributeError out of the handler
                IF raw.err # "none" THEN [returned |-> TRUE, res |-> NotFound]
                ELSE TheOne({
                    IF cooked.err # "none"
                    THEN [returned |-> TRUE,
                          res |-> [err |-> cooked.err, ans |-> NoRawSlot]]
                    \* a str or a slot_list has no get_raw_slot_inherited
                    ELSE IF ~ cooked.is_frame THEN Skipped
                    ELSE Asked(cooked, flag) :
                        cooked \in {cook_raw_slot(c, raw.ans)}})
        Isa == IF try_isa /\ "ISA" \in DOMAIN fr.raw_slots
               THEN TheOne({IF isa.returned THEN isa.res ELSE NotFound :
                               isa \in {Parent("isa", IsaTryIsa)}})
               ELSE NotFound
    IN  IF own.err = "none"
        THEN IF IsDeleted(own.ans) THEN NotFound ELSE own
        ELSE IF /\ Upper(slot_name) # "FRAME_NAME"
                /\ Upper(slot_name) # "AKO" \/ try_isa
             THEN IF "AKO" \in DOMAIN fr.raw_slots
                  THEN TheOne({IF ako.returned THEN ako.res ELSE Isa :
                                  ako \in {Parent("ako", try_isa)}})
                  ELSE Isa
        ELSE NotFound

\* frame.get_slot: [err, ans], cook_raw_slot of a '$' value reads the frame
get_slot(c, fr, slot_name) ==
    TheOne({IF got.err # "none" THEN got
            ELSE TheOne({IF cooked.err # "none"
                         THEN [err |-> cooked.err, ans |-> NoRawSlot]
                         ELSE got :
                            cooked \in {cook_raw_slot(c, got.ans)}}) :
               got \in {get_raw_slot_inherited(c, fr, slot_name, TRUE)}})

RECURSIVE get_slot_names(_, _, _, _)
\* frame.get_slot_names: [err, ret], ret the upper-cased names
get_slot_names(c, fr, seen_isa, seen_ako) ==
    LET Parent(link, isa_flag, ako_flag) ==
            LET raw == get_raw_slot(fr, link, TRUE)
            IN  IF raw.err # "none" THEN [err |-> raw.err, ret |-> {}]
                ELSE TheOne({
                    IF cooked.err # "none"
                    THEN [err |-> cooked.err, ret |-> {}]
                    \* a str or a slot_list has no get_slot_names
                    ELSE IF ~ cooked.is_frame
                         THEN [err |-> "AttributeError", ret |-> {}]
                    ELSE get_slot_names(c, cooked.frame, isa_flag, ako_flag) :
                        cooked \in {cook_raw_slot(c, raw.ans)}})
        None == [err |-> "none", ret |-> {}]
        discarded == {n \in DOMAIN fr.raw_slots : IsDeleted(fr.raw_slots[n])}
        added == {n \in DOMAIN fr.raw_slots \ discarded :
                     /\ ~ (n = "FRAME_NAME" /\ (seen_isa \/ seen_ako))
                     /\ ~ (n = "AKO" /\ seen_isa)}
        Mine(ako, isa) ==
            IF ako.err # "none" THEN ako
            ELSE IF isa.err # "none" THEN isa
            ELSE [err |-> "none",
                  ret |-> ((ako.ret \cup isa.ret) \ discarded) \cup added]
    IN  TheOne({Mine(ako, isa) :
                  ako \in {IF "AKO" \in DOMAIN fr.raw_slots
                           THEN Parent("ako", seen_isa, TRUE) ELSE None},
                  isa \in {IF ~ seen_isa /\ "ISA" \in DOMAIN fr.raw_slots
                           THEN Parent("isa", TRUE, seen_ako) ELSE None}})

\* some_frame.get_slot(slot_name) on the frame get_frame(frame_label) gives
GetSlot(frame_label, slot_name) ==
    /\ ctx.built
    /\ \E fr \in {get_frame(ctx, frame_label)} :
         IF fr.err # "none"
         THEN result' = [op |-> "get_slot", err |-> fr.err, ret |-> <<>>,
                         frame_id |-> frame_label, name |-> slot_name]
         ELSE \E got \in {get_slot(ctx, fr.frame, slot_name)} :
                 result' = [op |-> "get_slot", err |-> got.err,
                            ret |-> got.ans.rows,
                            frame_id |-> frame_label, name |-> slot_name]
    /\ UNCHANGED <<some_slot_list, Version, Version_requires, Slot, Slot_versions, ctx,
                   db_conn, some_version_obj>>

\* some_frame.get_slot_names() on the frame get_frame(frame_label) gives
GetSlotNames(frame_label) ==
    /\ ctx.built
    /\ \E fr \in {get_frame(ctx, frame_label)} :
         IF fr.err # "none"
         THEN result' = [op |-> "get_slot_names", err |-> fr.err,
                         ret |-> {}, frame_id |-> frame_label]
         ELSE \E got \in {get_slot_names(ctx, fr.frame, FALSE, FALSE)} :
                 result' = [op |-> "get_slot_names", err |-> got.err,
                            ret |-> got.ret, frame_id |-> frame_label]
    /\ UNCHANGED <<some_slot_list, Version, Version_requires, Slot, Slot_versions, ctx,
                   db_conn, some_version_obj>>

\* ------------------------------------------------ version.frame_ids_with_slots
\* positional arguments select_slots_by_version(self, where_exp,
\* **sql_params) accepts after self
SelectSlotsPositional == 1
\* positional arguments frame_ids_with_slots hands it: where_exp and
\* dict(slot_names_with_ako=...)
SelectSlotsHanded == 2

\* frame_ids_with_slots(**slots) for one criterion slot_name=value: [err,
\* ret]. The keys of derived_map are the '$label' strs of the AKO and ISA
\* rows, so derived_map[frame_id], asked with an int, is always empty and
\* spew_derived yields nothing. The values in use read the same in upper
\* case.
frame_ids_with_slots(c, slot_name, value) ==
    IF SelectSlotsHanded > SelectSlotsPositional
    THEN [err |-> "TypeError", ret |-> {}]
    ELSE TheOne({
           IF raw_frames.err # "none" THEN [err |-> raw_frames.err, ret |-> {}]
           ELSE [err |-> "none",
                 ret |-> {Slot[s].frame_id :
                            s \in {t \in raw_frames.ret :
                                      /\ Upper(Slot[t].name) = Upper(slot_name)
                                      /\ Slot[t].value = value}}] :
              raw_frames \in {select_slot_ids_by_version(c, SlotIds,
                                 {s \in SlotIds :
                                     Upper(Slot[s].name) \in
                                        {Upper(slot_name), "AKO", "ISA"}})}})

\* some_version.frame_ids_with_slots(slot_name=value)
FrameIdsWithSlots(slot_name, value) ==
    /\ ctx.built
    /\ \E got \in {frame_ids_with_slots(ctx, slot_name, value)} :
         result' = [op |-> "frame_ids_with_slots", err |-> got.err,
                    ret |-> got.ret, name |-> slot_name, value |-> value]
    /\ UNCHANGED <<some_slot_list, Version, Version_requires, Slot,
                   Slot_versions, ctx, db_conn, some_version_obj>>

\* ------------------------------------------------ frame_obj.py: class frame
\* A raw slot of a list object: the row it was read from, its position in
\* the list (column slot_list_order of frame_obj.py, value_order of
\* frames.py) and the (name, frame) pairs splice stamps on a copy, as the
\* frame_ids of the pairs
RawSlot(slot_id) ==
    [slot_id |-> slot_id, value_order |-> Slot[slot_id].value_order,
     splices |-> <<>>]

\* from_raw_data: raw_slots maps each lower-cased name to its raw slot or to
\* a slot_list of its rows, [err, frame]
from_raw_data(frame_id, raw_data) ==
    LET names == {Lower(Slot[s].name) : s \in raw_data}
        Group(name) == {s \in raw_data : Lower(Slot[s].name) = name}
    IN  [err |-> IF \E name \in names :
                       /\ Cardinality(Group(name)) > 1
                       /\ \E s \in Group(name) : Slot[s].value_order = PyNone
                 THEN "AssertionError" ELSE "none",
         frame |->
            [frame_id |-> frame_id,
             raw_slots |->
                [name \in names |->
                    TheOne({[is_list |-> Slot[rows[1]].value_order # PyNone,
                             rows |-> rows] :
                               rows \in {SortByOrder(Group(name))}})]]]

\* version_obj.get_frame on a frame not yet in frame_cache: read_frame over
\* the rows selected for frame_id, [err, frame]
read_frame(c, frame_id) ==
    TheOne({IF got.err # "none"
            THEN [err |-> got.err, frame |-> from_raw_data(frame_id, {}).frame]
            ELSE from_raw_data(frame_id, got.ret) :
               got \in {get_raw_frame(c, SlotIds, frame_id)}})

\* frame.get_my_raw_slot, which is frame.get_raw_slot on a frame without
\* spliced-in slots: [err, ans]
get_my_raw_slot(fr, slot_name, deleted_is_error) ==
    IF /\ Lower(slot_name) \in DOMAIN fr.raw_slots
       /\ ~ deleted_is_error \/ ~ IsDeleted(fr.raw_slots[Lower(slot_name)])
    THEN [err |-> "none", ans |-> fr.raw_slots[Lower(slot_name)]]
    ELSE NotFound

\* asbool that takes no value for true
asbool_never_true(x) ==
    IF x = TrueStr THEN [err |-> "none", ret |-> FALSE]
    ELSE IF x = FalseStr THEN [err |-> "none", ret |-> FALSE]
    ELSE [err |-> "ValueError", ret |-> FALSE]

\* asbool: [err, ret]
asbool(x) ==
    IF x = TrueStr THEN [err |-> "none", ret |-> TRUE]
    ELSE IF x = FalseStr THEN [err |-> "none", ret |-> FALSE]
    ELSE [err |-> "ValueError", ret |-> FALSE]

\* what cook_raw_slot gives: a str, a frame or a dynamic_slot_list
NoFrame == from_raw_data(0, {}).frame
Cooked(err, kind, raw_slot, fr, list) ==
    [err |-> err, kind |-> kind, raw_slot |-> raw_slot, frame |-> fr,
     list |-> list]
Raised(err) == Cooked(err, "none", NoRawSlot, NoFrame, NoList)

\* dict.update(other)
update(ans, other) ==
    [k \in DOMAIN ans \cup DOMAIN other |->
        IF k \in DOMAIN other THEN other[k] ELSE ans[k]]

RECURSIVE SortSlots(_)
\* raw_slots.sort(key=itemgetter('slot_list_order')) of raw slots whose
\* positions differ
SortSlots(slots) ==
    IF slots = {} THEN <<>>
    ELSE LET s == CHOOSE s \in slots :
                      \A t \in slots \ {s} :
                          ~ ValueLess(t.value_order, s.value_order)
         IN  <<s>> \o SortSlots(slots \ {s})

\* raw_slots[i:i+1] = new_raw_slots, i counted from 1
ReplaceAt(raw_slots, i, new_raw_slots) ==
    SubSeq(raw_slots, 1, i - 1) \o new_raw_slots
        \o SubSeq(raw_slots, i + 1, Len(raw_slots))

RECURSIVE frame_obj_cook_raw_slot(_, _)
RECURSIVE frame_obj_get_raw_slot_inherited(_, _, _, _)
RECURSIVE frame_obj_get_slot(_, _, _)
RECURSIVE get_inherited_values(_, _, _, _)
RECURSIVE do_splicing(_, _, _)
RECURSIVE dynamic_slot_list(_, _, _, _)

\* frame.cook_raw_slot of frame_obj.py: a slot_list becomes
\* raw_slot.prepared(), a value '$label' the frame get_frame gives
frame_obj_cook_raw_slot(c, raw_slot) ==
    IF raw_slot.is_list
    THEN TheOne({
            IF owner.err # "none" THEN Raised(owner.err)
            ELSE TheOne({Cooked(made.err, "list", raw_slot, NoFrame,
                                made.list) :
                            made \in {dynamic_slot_list(c, owner.frame,
                                         Slot[raw_slot.rows[1]].name,
                                         raw_slot.rows)}}) :
               owner \in {read_frame(c, Slot[raw_slot.rows[1]].frame_id)}})
    ELSE IF IsRef(Slot[raw_slot.rows[1]].value)
    THEN TheOne({Cooked(got.err, "frame", raw_slot, got.frame, NoList) :
                    got \in {read_frame(c,
                                RefTarget(Slot[raw_slot.rows[1]].value))}})
    ELSE Cooked("none", "str", raw_slot, NoFrame, NoList)

\* frame.get_raw_slot_inherited of frame_obj.py: [err, ans]
frame_obj_get_raw_slot_inherited(c, fr, slot_name, try_isa) ==
    LET own == get_my_raw_slot(fr, slot_name, FALSE)
        Skipped == [returned |-> FALSE, res |-> NotFound]
        Asked(cooked, flag) ==
            TheOne({IF r.err = "AttributeError" THEN Skipped
                    ELSE [returned |-> TRUE, res |-> r] :
                       r \in {frame_obj_get_raw_slot_inherited(
                                 c, cooked.frame, slot_name, flag)}})
        Parent(link, flag) ==
            LET raw == get_my_raw_slot(fr, link, TRUE)
            IN  IF raw.err # "none" THEN [returned |-> TRUE, res |-> NotFound]
                ELSE TheOne({
                    IF cooked.err # "none"
                    THEN [returned |-> TRUE,
                          res |-> [err |-> cooked.err, ans |-> NoRawSlot]]
                    ELSE IF cooked.kind # "frame" THEN Skipped
                    ELSE Asked(cooked, flag) :
                        cooked \in {frame_obj_cook_raw_slot(c, raw.ans)}})
        Isa == IF try_isa /\ "isa" \in DOMAIN fr.raw_slots
               THEN TheOne({IF isa.returned THEN isa.res ELSE NotFound :
                               isa \in {Parent("isa", FALSE)}})
               ELSE NotFound
    IN  IF own.err = "none"
        THEN IF IsDeleted(own.ans) THEN NotFound ELSE own
        ELSE IF /\ Lower(slot_name) # "frame_name"
                /\ Lower(slot_name) # "ako" \/ try_isa
             THEN IF "ako" \in DOMAIN fr.raw_slots
                  THEN TheOne({IF ako.returned THEN ako.res ELSE Isa :
                                  ako \in {Parent("ako", try_isa)}})
                  ELSE Isa
        ELSE NotFound

\* frame.get_slot of frame_obj.py, the cooked value
frame_obj_get_slot(c, fr, slot_name) ==
    TheOne({IF got.err # "none" THEN Raised(got.err)
            ELSE frame_obj_cook_raw_slot(c, got.ans) :
               got \in {frame_obj_get_raw_slot_inherited(c, fr, slot_name,
                                                         TRUE)}})

\* frame.get_inherited_values: [err, ans], ans the inherited raw slots by
\* slot_list_order. fetch looks the link up in raw_slots under the name it
\* is handed.
get_inherited_values(c, fr, slot_name, try_isa) ==
    LET Daddy(ans, daddy, flag) ==
            LET daddy_list == get_my_raw_slot(daddy, slot_name, FALSE)
                live == {s \in {daddy_list.ans.rows[k] :
                                   k \in DOMAIN daddy_list.ans.rows} :
                            Slot[s].value # DELETED}
                dead == {Slot[s].value_order :
                            s \in {daddy_list.ans.rows[k] :
                                      k \in DOMAIN daddy_list.ans.rows} \ live}
            IN  TheOne({
                  IF up.err # "none" THEN up
                  ELSE IF daddy_list.err # "none"
                       THEN [err |-> "none", ans |-> update(ans, up.ans)]
                  ELSE IF ~ daddy_list.ans.is_list
                       THEN [err |-> "none", ans |-> <<>>]
                  ELSE [err |-> "none",
                        ans |->
                          [p \in (DOMAIN update(ans, up.ans) \ dead) \cup
                                 {Slot[s].value_order : s \in live} |->
                             IF \E s \in live : Slot[s].value_order = p
                             THEN RawSlot(CHOOSE s \in live :
                                             Slot[s].value_order = p)
                             ELSE update(ans, up.ans)[p]]] :
                    up \in {get_inherited_values(c, daddy, slot_name, flag)}})
        fetch(ans, slot, flag) ==
            IF slot \in DOMAIN fr.raw_slots
            THEN LET raw == get_my_raw_slot(fr, slot, TRUE)
                 IN  IF raw.err # "none" THEN [err |-> raw.err, ans |-> <<>>]
                     ELSE TheOne({
                        IF cooked.err # "none"
                        THEN [err |-> cooked.err, ans |-> <<>>]
                        ELSE IF cooked.kind # "frame"
                             THEN [err |-> "AttributeError", ans |-> <<>>]
                        ELSE Daddy(ans, cooked.frame, flag) :
                           cooked \in {frame_obj_cook_raw_slot(c, raw.ans)}})
            ELSE [err |-> "none", ans |-> ans]
    IN  TheOne({IF isa.err # "none" THEN isa
                ELSE fetch(isa.ans, "AKO", TRUE) :
                   isa \in {IF try_isa THEN fetch(<<>>, "ISA", FALSE)
                            ELSE [err |-> "none", ans |-> <<>>]}})

\* dynamic_slot_list.splice(i, splice_frame), i counted from 1: [err, list].
\* Each copy keeps the slot_list_order it has in the spliced list.
dynamic_splice(c, list, i, splice_frame) ==
    LET Copy(slot) == [slot EXCEPT
                          !.splices = <<splice_frame.frame_id>> \o @]
        Spliced(new_raw_slots) ==
            [err |-> "none",
             list |-> [list EXCEPT
                          !.raw_slots = ReplaceAt(@, i, new_raw_slots)]]
    IN  TheOne({
          \* getattr(splice_frame, self.name, None)
          IF got.err = "AttributeError" THEN Spliced(<<>>)
          ELSE IF got.err # "none" THEN [err |-> got.err, list |-> list]
          ELSE IF got.kind = "list"
               THEN Spliced([k \in DOMAIN got.list.raw_slots |->
                                Copy(got.list.raw_slots[k])])
          ELSE Spliced(<<>>) :
             got \in {frame_obj_get_slot(c, splice_frame, list.name)}})

\* dynamic_slot_list.do_splicing from index i on, i counted from 1:
\* [err, list]
do_splicing(c, list, i) ==
    LET value == Slot[list.raw_slots[i].slot_id].value
        Failed(err) == [err |-> err, list |-> list]
        SpliceAt(splice_frame) ==
            TheOne({IF done.err # "none" THEN done
                    ELSE do_splicing(c, done.list, i) :
                       done \in {dynamic_splice(c, list, i, splice_frame)}})
        \* asbool(getattr(value, 'splice', 'false'))
        Checked(fr, got) ==
            IF got.err = "AttributeError" THEN do_splicing(c, list, i + 1)
            ELSE IF got.err # "none" THEN Failed(got.err)
            \* a frame or a dynamic_slot_list has no lower()
            ELSE IF got.kind # "str" THEN Failed("AttributeError")
            ELSE LET flag == asbool(Slot[got.raw_slot.rows[1]].value)
                 IN  IF flag.err # "none" THEN Failed(flag.err)
                     ELSE IF flag.ret THEN SpliceAt(fr)
                     ELSE do_splicing(c, list, i + 1)
    IN  IF i > Len(list.raw_slots) THEN [err |-> "none", list |-> list]
        ELSE IF ~ IsRef(value) THEN do_splicing(c, list, i + 1)
        ELSE TheOne({
                IF fr.err # "none" THEN Failed(fr.err)
                ELSE TheOne({Checked(fr.frame, got) :
                        got \in {frame_obj_get_slot(c, fr.frame, "splice")}}) :
                   fr \in {read_frame(c, RefTarget(value))}})

\* dynamic_slot_list(frame, name, raw_slots): prepare() is inherit_values()
\* then do_splicing(), [err, list]
dynamic_slot_list(c, fr, name, rows) ==
    LET mine == {RawSlot(rows[k]) : k \in DOMAIN rows}
        my_slot_list_orders == {slot.value_order : slot \in mine}
        Merged(ans) ==
            SortSlots(mine \cup
                {ans[p] : p \in DOMAIN ans \ my_slot_list_orders})
    IN  TheOne({
          IF inherited.err # "none"
          THEN [err |-> inherited.err, list |-> NoList]
          ELSE do_splicing(c, [frame_id |-> fr.frame_id, name |-> name,
                               raw_slots |-> Merged(inherited.ans),
                               cls |-> "dynamic_slot_list"], 1) :
             inherited \in {get_inherited_values(c, fr, name, TRUE)}})

\* -------------------------------------------- frames.py: class slot_list
\* the slot_list frame.__init__ builds over the rows of one name; its name
\* is the upper-cased name the rows are grouped by
slot_list(frame_id, name, rows) ==
    [frame_id |-> frame_id, name |-> name,
     raw_slots |-> [k \in DOMAIN rows |-> RawSlot(rows[k])],
     cls |-> "slot_list"]

\* list.insert(i, x), i counted from 0
ListInsert(raw_slots, i, x) ==
    SubSeq(raw_slots, 1, i) \o <<x>> \o SubSeq(raw_slots, i + 1, Len(raw_slots))

\* slot_list.insert(value, i) and dynamic_slot_list.insert(value, i), i None
\* when is_none: [err, list, db]
insert(c, db, list, value, is_none, i) ==
    LET n == Len(list.raw_slots)
        Failed(err) == [err |-> err, list |-> list, db |-> db]
        Created(value_order, at) ==
            TheOne({
              IF r.err # "none" THEN Failed(r.err)
              ELSE [err |-> "none",
                    list |-> [list EXCEPT !.raw_slots =
                                 ListInsert(@, at,
                                     [slot_id |-> r.ret,
                                      value_order |-> value_order,
                                      splices |-> <<>>])],
                    db |-> r.db] :
                 r \in {create_slot(c, db, list.frame_id, list.name, value,
                                    value_order)}})
    IN  IF is_none
        THEN IF n = 0 THEN Failed("IndexError")
             ELSE Created(NumAdd(list.raw_slots[n].value_order, Num(1)), n)
        ELSE IF i = 0
        THEN IF n = 0 THEN Failed("IndexError")
             ELSE Created(NumSub(list.raw_slots[1].value_order, Num(1)), 0)
        ELSE IF i >= n THEN Failed("IndexError")
        ELSE Created(Midpoint(list.raw_slots[i].value_order,
                              list.raw_slots[i + 1].value_order), i)

\* whether the arithmetic of splice(i, ...) with n copies is exact in
\* floating point: inc is 1.0, or (end - start) / (n + 1) divides evenly
SpliceIsExact(list, i, n) ==
    IF i = Len(list.raw_slots) - 1 THEN TRUE
    ELSE NumDivides(NumSub(list.raw_slots[i + 2].value_order,
                           list.raw_slots[i + 1].value_order), n + 1)

\* slot_list.splice(i, splice_frame), i counted from 0: [err, list, ret],
\* ret the new_raw_slots returned. The raw values are strs, never frames,
\* so no slot is stuffed into a copy.
splice(c, list, i, splice_frame) ==
    LET my_raw_slot == list.raw_slots[i + 1]
        name_to_splice == Slot[my_raw_slot.slot_id].name
        start == my_raw_slot.value_order
        is_last == i = Len(list.raw_slots) - 1
        Failed(err) == [err |-> err, list |-> list, ret |-> <<>>]
        Spliced(new_raw_slots) ==
            [err |-> "none",
             list |-> [list EXCEPT
                          !.raw_slots = ReplaceAt(@, i + 1, new_raw_slots)],
             ret |-> new_raw_slots]
        Copies(rows) ==
            TheOne({[n \in DOMAIN rows |->
                        [slot_id |-> rows[n],
                         value_order |-> NumAdd(start, NumTimes(n, inc)),
                         splices |-> <<>>]] :
                      inc \in {IF is_last THEN Num(1)
                               ELSE NumDiv(
                                     NumSub(list.raw_slots[i + 2].value_order,
                                            start),
                                     Len(rows) + 1)}})
    IN  TheOne({
          \* getattr(splice_frame, name_to_splice, None)
          IF got.err = "AttributeError" THEN Spliced(<<>>)
          ELSE IF got.err # "none" THEN Failed(got.err)
          ELSE IF got.ans.is_list THEN Spliced(Copies(got.ans.rows))
          \* a frame has no len(); a str and a frame have no
          \* iter_raw_slots()
          ELSE IF ~ is_last /\ IsRef(Slot[got.ans.rows[1]].value)
               THEN Failed("TypeError")
          ELSE Failed("AttributeError") :
             got \in {get_slot(c, splice_frame, name_to_splice)}})

\* ------------------------------------------------------- callers of the lists
\* some_slot_list = some_frame.get_slot(slot_name) with the frame class of
\* frames.py, by a caller that holds no list yet
GetList(frame_label, slot_name) ==
    /\ ctx.built
    /\ some_slot_list = NoList
    /\ \E fr \in {get_frame(ctx, frame_label)} :
         IF fr.err # "none"
         THEN /\ result' = [op |-> "get_list", err |-> fr.err, ret |-> <<>>,
                            frame_id |-> frame_label, name |-> slot_name]
              /\ UNCHANGED some_slot_list
         ELSE \E got \in {get_slot(ctx, fr.frame, slot_name)} :
                /\ result' = [op |-> "get_list", err |-> got.err,
                              ret |-> got.ans.rows,
                              frame_id |-> frame_label, name |-> slot_name]
                /\ some_slot_list' =
                     IF got.err = "none" /\ got.ans.is_list
                     THEN slot_list(Slot[got.ans.rows[1]].frame_id,
                                    Upper(Slot[got.ans.rows[1]].name),
                                    got.ans.rows)
                     ELSE some_slot_list
    /\ UNCHANGED <<Version, Version_requires, Slot, Slot_versions, ctx,
                   db_conn, some_version_obj>>

\* some_slot_list = some_frame.get_slot(slot_name) with the frame class of
\* frame_obj.py, by a caller that holds no list yet
GetDynamicList(frame_label, slot_name) ==
    /\ ctx.built
    /\ some_slot_list = NoList
    /\ \E fr \in {read_frame(ctx, frame_label)} :
         IF fr.err # "none"
         THEN /\ result' = [op |-> "get_dynamic_list", err |-> fr.err,
                            ret |-> <<>>,
                            frame_id |-> frame_label, name |-> slot_name]
              /\ UNCHANGED some_slot_list
         ELSE \E got \in {frame_obj_get_slot(ctx, fr.frame, slot_name)} :
                /\ result' = [op |-> "get_dynamic_list", err |-> got.err,
                              ret |-> got.raw_slot.rows,
                              frame_id |-> frame_label, name |-> slot_name]
                /\ some_slot_list' =
                     IF got.err = "none" /\ got.kind = "list"
                     THEN got.list ELSE some_slot_list
    /\ UNCHANGED <<Version, Version_requires, Slot, Slot_versions, ctx,
                   db_conn, some_version_obj>>

\* the positions of the list are doubles of [512, 1024)
ListInRange == \A k \in DOMAIN some_slot_list.raw_slots :
                  InRange(some_slot_list.raw_slots[k].value_order)

\* some_slot_list.insert(value, i), i None when is_none
Insert(value, is_none, i) ==
    /\ ctx.built
    /\ some_slot_list # NoList
    /\ ListInRange
    /\ Len(some_slot_list.raw_slots) < MaxHeld
    /\ \E r \in {insert(ctx, Db, some_slot_list, value, is_none, i)} :
         /\ Slot' = r.db.Slot
         /\ Slot_versions' = r.db.Slot_versions
         /\ some_slot_list' = r.list
         /\ result' = [op |-> "insert", err |-> r.err, ret |-> <<>>,
                       is_none |-> is_none, i |-> i]
    /\ UNCHANGED <<Version, Version_requires, ctx, db_conn, some_version_obj>>

\* some_slot_list.splice(i, splice_frame) on a slot_list of frames.py, for
\* positions on which its arithmetic is exact
Splice(i, splice_frame) ==
    /\ ctx.built
    /\ some_slot_list.cls = "slot_list"
    /\ ListInRange
    /\ i < Len(some_slot_list.raw_slots)
    /\ Len(some_slot_list.raw_slots) < MaxHeld
    /\ \E fr \in {get_frame(ctx, splice_frame)} :
         /\ fr.err = "none"
         /\ \E r \in {splice(ctx, some_slot_list, i, fr.frame)} :
              /\ SpliceIsExact(some_slot_list, i, Len(r.ret))
              /\ some_slot_list' = r.list
              /\ result' = [op |-> "splice", err |-> r.err, ret |-> r.ret,
                            i |-> i, frame_id |-> splice_frame]
    /\ UNCHANGED <<Version, Version_requires, Slot, Slot_versions, ctx,
                   db_conn, some_version_obj>>

\* some_slot_list.splice(i, splice_frame) on a dynamic_slot_list of
\* frame_obj.py, which returns nothing
DynamicSplice(i, splice_frame) ==
    /\ ctx.built
    /\ some_slot_list.cls = "dynamic_slot_list"
    /\ i < Len(some_slot_list.raw_slots)
    /\ Len(some_slot_list.raw_slots) < MaxHeld
    /\ \E fr \in {read_frame(ctx, splice_frame)} :
         /\ fr.err = "none"
         /\ \E r \in {dynamic_splice(ctx, some_slot_list, i + 1, fr.frame)} :
              /\ some_slot_list' = r.list
              /\ result' = [op |-> "splice", err |-> r.err, ret |-> <<>>,
                            i |-> i, frame_id |-> splice_frame]
    /\ UNCHANGED <<Version, Version_requires, Slot, Slot_versions, ctx,
                   db_conn, some_version_obj>>

\* ------------------------------------------------- versions.py: version_obj
\* db.py connection: the transaction of the database connection under it
\* and the names in trans_attr_names
Idle == [in_transaction |-> FALSE, trans_attr_names |-> {}]
NoVersionObj == [entered |-> FALSE, version_name |-> 0, for_update |-> FALSE,
                 version_id |-> 0, status |-> "none", del_flag |-> FALSE]

\* connection.__enter__: [err, conn]; BEGIN inside a transaction is refused
\* by the database
connection_enter(conn) ==
    IF conn.in_transaction THEN [err |-> "OperationalError", conn |-> conn]
    ELSE [err |-> "none",
          conn |-> [in_transaction |-> TRUE,
                    trans_attr_names |-> conn.trans_attr_names \cup {"now"}]]

\* connection.__exit__: every transaction attribute deleted, then commit or
\* rollback
connection_exit(conn) == [in_transaction |-> FALSE, trans_attr_names |-> {}]

\* version_obj.__enter__: [err, conn, obj]; an exception leaves the
\* connection as the statements before it made it
version_obj_enter(conn, version_name, for_update) ==
    LET begun == connection_enter(conn)
        Raise(err) == [err |-> err, conn |-> begun.conn, obj |-> NoVersionObj]
    IN  IF begun.err # "none" THEN Raise(begun.err)
        \* select_1: 'No row found in Version'
        ELSE IF version_name \notin VersionIds THEN Raise("no_row_found")
        ELSE IF for_update /\ Version[version_name].status # "proposed"
             THEN Raise("not_proposed")
        ELSE LET del_flag == for_update /\ "update_version_id"
                                           \notin begun.conn.trans_attr_names
             IN  [err |-> "none",
                  conn |-> IF del_flag
                           THEN [begun.conn EXCEPT !.trans_attr_names =
                                    @ \cup {"update_version_id"}]
                           ELSE begun.conn,
                  obj |-> [entered |-> TRUE, version_name |-> version_name,
                           for_update |-> for_update,
                           version_id |-> version_name,
                           status |-> Version[version_name].status,
                           del_flag |-> del_flag]]

\* version_obj.__exit__: the connection it leaves
version_obj_exit(conn, obj) ==
    connection_exit(IF obj.for_update /\ obj.del_flag
                    THEN [conn EXCEPT !.trans_attr_names =
                             @ \ {"update_version_id"}]
                    ELSE conn)

\* with conn.at_version(user, version_name, for_update): the statement is
\* reached by a caller that is in no with block; when __enter__ raises,
\* __exit__ is not called
Enter(version_name, for_update) ==
    /\ ~ some_version_obj.entered
    /\ \E got \in {version_obj_enter(db_conn, version_name, for_update)} :
          /\ db_conn' = got.conn
          /\ some_version_obj' = got.obj
          /\ result' = [op |-> "enter", err |-> got.err, ret |-> PyNone,
                        version_name |-> version_name,
                        for_update |-> for_update]
    /\ UNCHANGED <<some_slot_list, Version, Version_requires, Slot,
                   Slot_versions, ctx>>

\* the with block ends, by reaching its end or by an exception of its body
Exit(raised) ==
    /\ some_version_obj.entered
    /\ db_conn' = version_obj_exit(db_conn, some_version_obj)
    /\ some_version_obj' = NoVersionObj
    /\ result' = [op |-> "exit", err |-> "none",
                  ret |-> IF raised THEN "rollback" ELSE "commit"]
    /\ UNCHANGED <<some_slot_list, Version, Version_requires, Slot,
                   Slot_versions, ctx>>

\* ------------------------------------------------------------ specifications
Init ==
    /\ Version = <<>>
    /\ Version_requires = {}
    /\ Slot = <<>>
    /\ Slot_versions = {}
    /\ ctx = NoCtx
    /\ result = NoResult
    /\ some_slot_list = NoList
    /\ db_conn = Idle
    /\ some_version_obj = NoVersionObj

NextVersions ==
    \/ \E requires \in SUBSET (1 .. MaxVersions) : LoadVersions(requires)
    \/ \E name \in 1 .. MaxVersions, value \in Statuses :
          LoadChangeVersions(name, value)
    \/ \E version_names \in SUBSET (1 .. MaxVersions) : AtVersions(version_names)
    \/ \E versions, other_versions \in SUBSET (1 .. MaxVersions) :
          BetterFitCall(versions, other_versions)

\* the version tables and the version objects built over them
SpecVersions == Init /\ [][NextVersions]_vars

\* values[1 .. n] for the lists handed to create_list
ValueLists == UNION {[1 .. n -> Values] : n \in 0 .. MaxList}

NextSlots ==
    \/ \E frame_id \in Frames, name \in Names, value \in Values,
          value_order \in Orders :
          CreateSlot(frame_id, name, value, value_order)
    \/ \E frame_id \in Frames, name \in Names, values \in ValueLists :
          CreateList(frame_id, name, values)
    \/ \E slot_id \in 1 .. MaxSlots, value \in NewValues,
          value_order \in Orders :
          UpdateSlot(slot_id, value, value_order)
    \/ \E slot_id \in 1 .. MaxSlots : DeleteSlot(slot_id)
    \/ \E frame_id \in Frames : GetRawFrame(frame_id)
    \/ \E value \in Values : SelectSlotIdsByVersion(value)

\* the Requires tables load_versions leaves over the versions 1 .. n when no
\* version names itself: each version requires versions loaded before it
LoadedRequires(n) == SUBSET {e \in (1 .. n) \X (1 .. n) : e[2] < e[1]}

\* a database with StoreVersions versions loaded, whatever their status and
\* their requirements, and no slot yet
InitStore ==
    /\ Version \in [1 .. StoreVersions -> [status : Statuses]]
    /\ Version_requires \in LoadedRequires(StoreVersions)
    /\ Slot = <<>>
    /\ Slot_versions = {}
    /\ ctx = NoCtx
    /\ result = NoResult
    /\ some_slot_list = NoList
    /\ db_conn = Idle
    /\ some_version_obj = NoVersionObj

Next ==
    \/ \E version_names \in SUBSET (1 .. StoreVersions) :
          AtVersions(version_names)
    \/ NextSlots

\* version objects working on the slots of a database whose versions are loaded
Spec == InitStore /\ [][Next]_vars

\* the slot names of the frames whose inheritance is looked up, in row order
SlotNames == <<"ako", "isa", "size">>
\* what frame f holds under SlotNames[i]: no row (None), '<DELETED>', a link
\* to a frame read after it, or a value; the last frame is a root without
\* links
Holdings(f, i) ==
    IF SlotNames[i] = "size" THEN {PyNone, DELETED} \cup Values
    ELSE IF f = MaxFrames THEN {PyNone}
    ELSE {PyNone, DELETED} \cup {Ref(g) : g \in f + 1 .. MaxFrames}

RECURSIVE SlotTables(_)
\* the tables of single-valued rows that frames hold from the k-th pair
\* (frame, name) on, frame by frame
SlotTables(k) ==
    IF k > MaxFrames * Len(SlotNames) THEN {<<>>}
    ELSE LET f == ((k - 1) \div Len(SlotNames)) + 1
             i == ((k - 1) % Len(SlotNames)) + 1
         IN  {IF value = PyNone THEN rest
              ELSE <<[frame_id |-> f, name |-> SlotNames[i],
                      value_order |-> PyNone, value |-> value]>> \o rest :
                 value \in Holdings(f, i), rest \in SlotTables(k + 1)}

\* a database of one version holding MaxFrames frames linked by ako and isa
\* slots, and the version object at_versions builds over it
InitFrames ==
    /\ Version = <<[status |-> DefaultStatus]>>
    /\ Version_requires = {}
    /\ Slot \in SlotTables(1)
    /\ Slot_versions = {<<s, 1>> : s \in 1 .. Len(Slot)}
    /\ ctx = version_object({1})
    /\ result = NoResult
    /\ some_slot_list = NoList
    /\ db_conn = Idle
    /\ some_version_obj = NoVersionObj

\* the frame callers ask for; the later frames are read through its links
AskedFrames == {1}

NextFrames ==
    \/ \E frame_label \in AskedFrames, i \in 1 .. Len(SlotNames) :
          GetSlot(frame_label, SlotNames[i])
    \/ \E frame_label \in AskedFrames : GetSlotNames(frame_label)
    \/ \E value \in Values : FrameIdsWithSlots("size", value)

\* frames read through one version object, and their inherited slots
SpecFrames == InitFrames /\ [][NextFrames]_vars

\* the list positions frame 1 holds after its first, ListBase: the double
\* next to ListBase, or a whole number
SecondPositions == {<<"num", ListBase, 0, 1>>, Num(ListBase + 2), Num(ListBase + 3)}
\* the link of frame 1 to frame 2, if any
LinkNames == {"none", "ako", "isa"}

\* what the last frame holds besides its splice flag: two items, no items,
\* or two items of which the second names frame 2, itself a splice frame
SpliceShapes == {"items", "bare", "nested"}

\* the rows of three frames: frame 1 holds two items and maybe a link to
\* frame 2, frame 2 holds three items, and the last frame, which an item of
\* frame 1 may name, holds a splice flag and the items of its shape
ListRows(second, first_value, link, flag, shape) ==
    LET Row(f, name, value_order, value) ==
            [frame_id |-> f, name |-> name, value_order |-> value_order,
             value |-> value]
    IN  <<Row(1, "items", Num(ListBase), first_value),
          Row(1, "items", second, Red)>>
        \o (IF link = "none" THEN <<>>
            ELSE <<Row(1, link, PyNone, Ref(2))>>)
        \o <<Row(2, "items", Num(ListBase), Blue),
             Row(2, "items", Num(ListBase + 1), Blue),
             Row(2, "items", Num(ListBase + 3), Blue),
             Row(MaxFrames, "splice", PyNone, flag)>>
        \o (IF shape = "bare" THEN <<>>
            ELSE <<Row(MaxFrames, "items", Num(ListBase), Blue),
                   Row(MaxFrames, "items", Num(ListBase + 1),
                       IF shape = "nested" THEN Ref(2) ELSE Blue)>>)
        \o (IF shape = "nested" THEN <<Row(2, "splice", PyNone, TrueStr)>>
            ELSE <<>>)

\* a database of one version, proposed or final, holding the rows of
\* ListRows in one of the shapes, and the version object at_versions builds
\* over it
ListsLoaded(shapes) ==
    /\ Version \in [{1} -> [status : Statuses]]
    /\ Version_requires = {}
    /\ \E second \in SecondPositions, first_value \in {Red, Ref(MaxFrames)},
          link \in LinkNames, flag \in {TrueStr, FalseStr},
          shape \in shapes :
          Slot = ListRows(second, first_value, link, flag, shape)
    /\ Slot_versions = {<<s, 1>> : s \in 1 .. Len(Slot)}
    /\ ctx = version_object({1})
    /\ result = NoResult
    /\ some_slot_list = NoList
    /\ db_conn = Idle
    /\ some_version_obj = NoVersionObj

InitLists == ListsLoaded({"items"})

NextLists ==
    \/ \E frame_label \in AskedFrames : GetList(frame_label, "items")
    \/ \E frame_label \in AskedFrames : GetDynamicList(frame_label, "items")
    \/ \E value \in Values, is_none \in BOOLEAN, i \in 0 .. MaxIndex :
          Insert(value, is_none, i)
    \/ \E i \in 0 .. MaxIndex : Splice(i, MaxFrames)
    \/ \E i \in 0 .. MaxIndex : DynamicSplice(i, MaxFrames)

\* list objects read through one version object, and the calls made on them
SpecLists == InitLists /\ [][NextLists]_vars

InitSplicing == ListsLoaded(SpliceShapes)

NextSplicing ==
    \/ \E frame_label \in AskedFrames : GetDynamicList(frame_label, "items")
    \/ \E i \in 0 .. MaxIndex : DynamicSplice(i, MaxFrames)

\* the lists frame_obj.py builds over splice frames of every shape, and the
\* splices asked of them
SpecSplicing == InitSplicing /\ [][NextSplicing]_vars

\* a database of versions, proposed or final, and a connection no with
\* block has been entered on
InitContext ==
    /\ \E n \in 0 .. StoreVersions : Version \in [1 .. n -> [status : Statuses]]
    /\ Version_requires = {}
    /\ Slot = <<>>
    /\ Slot_versions = {}
    /\ ctx = NoCtx
    /\ result = NoResult
    /\ some_slot_list = NoList
    /\ db_conn = Idle
    /\ some_version_obj = NoVersionObj

NextContext ==
    \/ \E version_name \in 1 .. MaxVersions, for_update \in BOOLEAN :
          Enter(version_name, for_update)
    \/ \E raised \in BOOLEAN : Exit(raised)
    \/ \E name \in 1 .. MaxVersions, value \in Statuses :
          LoadChangeVersions(name, value)

\* with blocks over version_obj objects of one connection
SpecContext == InitContext /\ [][NextContext]_vars

\* ------------------------------------------------------------------ claims
RECURSIVE TransitiveClosure(_, _)
\* the pairs joined by one or more edges of R, over the ids 1 .. k
TransitiveClosure(R, k) ==
    IF k = 0 THEN R
    ELSE LET T == TransitiveClosure(R, k - 1)
         IN  T \cup {<<e[1], f[2]>> : e \in {x \in T : x[2] = k},
                                       f \in {x \in T : x[1] = k}}
RequiresPlus == TransitiveClosure(Version_requires, Len(Version))
ReachableFrom(S) == {e[2] : e \in {x \in RequiresPlus : x[1] \in S}}
DirectlyRequired(S) == {e[2] : e \in {x \in Version_requires : x[1] \in S}}
VersionSets(c) == SUBSET c.required_versions \ {{}}

\* C1: the required_versions of every version object built over existing
\* versions is its active set united with every version reachable from the
\* active set by one or more Requires edges, no more and no less.
C1_ClosureCorrect ==
    ctx.built =>
        ctx.required_versions =
            ctx.version_ids \cup ReachableFrom(ctx.version_ids)

\* C1 witness: a version object whose required_versions holds a version that
\* is neither active nor directly required by an active version.
C1_Witness ==
    /\ ctx.built
    /\ result.op = "at_versions" /\ result.err = "none"
    /\ ctx.required_versions \
           (ctx.version_ids \cup DirectlyRequired(ctx.version_ids)) # {}

\* C4: for any two version-id sets drawn from required_versions, better_fit
\* is never true in both directions.
C4_NeverBothBetter ==
    ctx.built =>
        \A A \in VersionSets(ctx), B \in VersionSets(ctx) :
            ~ (better_fit(ctx, A, B) /\ better_fit(ctx, B, A))

\* C4 witness: better_fit was called and answered true for two sets of the
\* same size that share a version, where only the requirement edges decide.
C4_Witness ==
    /\ ctx.built
    /\ result.op = "better_fit" /\ result.ret = TRUE
    /\ \E A \in VersionSets(ctx), B \in VersionSets(ctx) :
          /\ Cardinality(A) = Cardinality(B)
          /\ A \cap B # {}
          /\ better_fit(ctx, A, B)

\* ------------------------------------------------- claims about resolution
\* the candidates of a key under c: the stored slots of that key whose
\* versions all lie inside required_versions
Candidates(c, key) ==
    {s \in SlotIds : /\ SlotVersionIds(s) # {}
                     /\ PyKey(s) = key
                     /\ SlotVersionIds(s) \subseteq c.required_versions}
StoredKeys == {PyKey(s) : s \in SlotIds}
\* no version of A is required, directly or through other versions, by a
\* version of B
NotRequiredBy(A, B) == \A v \in A, w \in B : <<w, v>> \notin RequiresPlus
\* the version objects that can be built over the loaded versions
Contexts ==
    {version_object(S) : S \in {T \in SUBSET VersionIds : T # {}}}

\* C2: when the candidates of a key (frame, name, list_position) are two rows
\* a and b, the versions of a strictly contain the versions of b and no
\* version of a is transitively required by a version of b, then better_fit
\* prefers a to b and not b to a, and resolving the frame selects a.
C2_SupersetSelected ==
    ctx.built =>
        \A a \in SlotIds, b \in SlotIds :
            LET A == SlotVersionIds(a)
                B == SlotVersionIds(b)
                got == get_raw_frame(ctx, SlotIds, Slot[a].frame_id)
            IN  ( /\ a # b
                  /\ Candidates(ctx, PyKey(a)) = {a, b}
                  /\ B \subseteq A /\ B # A
                  /\ NotRequiredBy(A, B) )
                => /\ better_fit(ctx, A, B)
                   /\ ~ better_fit(ctx, B, A)
                   /\ got.err = "none"
                   /\ a \in got.ret

\* C3: when a key has two or more candidates and none of them is better_fit
\* than every other one, resolving the frame raises 'Slot version conflict'
\* and returns no row.
C3_ConflictRaised ==
    ctx.built =>
        \A key \in StoredKeys :
            LET cands == Candidates(ctx, key)
                got == get_raw_frame(ctx, SlotIds, key[1])
            IN  ( /\ Cardinality(cands) >= 2
                  /\ ~ \E s \in cands : \A t \in cands \ {s} :
                          better_fit(ctx, SlotVersionIds(s),
                                     SlotVersionIds(t)) )
                => got.err = "conflict" /\ got.ret = {}

\* C5: a row attached to a version outside required_versions is never
\* selected, and the outcome for its key is the one obtained when the row is
\* not in the store.
C5_IneligibleRowIgnored ==
    ctx.built =>
        \A r \in SlotIds :
            LET frame_id == Slot[r].frame_id
                desired == {s \in SlotIds : Slot[s].frame_id = frame_id}
            IN  ( /\ SlotVersionIds(r) # {}
                  /\ ~ (SlotVersionIds(r) \subseteq ctx.required_versions) )
                => /\ r \notin get_raw_frame(ctx, SlotIds, frame_id).ret
                   /\ KeyOutcome(ctx, SlotIds, desired, PyKey(r))
                      = KeyOutcome(ctx, SlotIds \ {r}, desired \ {r}, PyKey(r))

\* ----------------------------------------------- claims about the mutators
\* C6: update_slot on a slot whose version set equals the active version_ids
\* of an unfrozen context returns the same slot_id and adds neither a Slot
\* row nor a Slot_versions link.
C6_UpdatedInPlace ==
    [][\A slot_id \in 1 .. MaxSlots, value \in NewValues,
          value_order \in Orders :
          ( /\ UpdateSlot(slot_id, value, value_order)
            /\ ~ ctx.frozen
            /\ SlotVersionIds(slot_id) = ctx.version_ids )
          => /\ result'.err = "none"
             /\ result'.ret = slot_id
             /\ Len(Slot') = Len(Slot)
             /\ Slot_versions' = Slot_versions]_vars

\* C7: update_slot on a slot whose version set differs from the active
\* version_ids of an unfrozen context returns a new slot_id linked to exactly
\* the active version_ids, leaves the old row and its links as they were,
\* and the old row is still selected under every version object that
\* selected it and for which the new row is not eligible.
C7_NewRowKeepsOld ==
    [][\A slot_id \in 1 .. MaxSlots, value \in NewValues,
          value_order \in Orders :
          ( /\ UpdateSlot(slot_id, value, value_order)
            /\ ~ ctx.frozen
            /\ SlotVersionIds(slot_id) # ctx.version_ids )
          => /\ result'.err = "none"
             /\ result'.ret \notin SlotIds
             /\ result'.ret \in 1 .. Len(Slot')
             /\ {e[2] : e \in {x \in Slot_versions' : x[1] = result'.ret}}
                = ctx.version_ids
             /\ Slot'[slot_id] = Slot[slot_id]
             /\ {x \in Slot_versions' : x[1] = slot_id}
                = {x \in Slot_versions : x[1] = slot_id}
             /\ \A c \in Contexts :
                   ( /\ ~ (ctx.version_ids \subseteq c.required_versions)
                     /\ get_raw_frame(c, SlotIds, Slot[slot_id].frame_id).err
                        = "none"
                     /\ slot_id \in
                        get_raw_frame(c, SlotIds, Slot[slot_id].frame_id).ret )
                   => /\ get_raw_frame(c, SlotIds,
                                       Slot[slot_id].frame_id)'.err = "none"
                      /\ slot_id \in get_raw_frame(c, SlotIds,
                                         Slot[slot_id].frame_id)'.ret]_vars

\* C8: after update_slot took the new-row path for an old row whose versions
\* all lie inside required_versions, resolving the frame under the same
\* version object raises nothing and selects, for the key of the old row,
\* the new row and not the old one.
C8_NewRowShadowsOld ==
    [][\A slot_id \in 1 .. MaxSlots, value \in NewValues,
          value_order \in Orders :
          ( /\ UpdateSlot(slot_id, value, value_order)
            /\ ~ ctx.frozen
            /\ SlotVersionIds(slot_id) # ctx.version_ids
            /\ SlotVersionIds(slot_id) \subseteq ctx.required_versions )
          => /\ get_raw_frame(ctx, SlotIds, Slot[slot_id].frame_id)'.err
                = "none"
             /\ KeyOutcome(ctx, SlotIds,
                    {s \in SlotIds : Slot[s].frame_id = Slot[slot_id].frame_id},
                    PyKey(slot_id))'
                = [kind |-> "best", slot_id |-> result'.ret,
                   desired |-> TRUE]]_vars

\* C9: create_slot, update_slot and create_list called on a frozen version
\* object raise the frozen error and leave Slot and Slot_versions untouched.
C9_FrozenRaises ==
    [][(ctx.built /\ ctx.frozen) =>
          /\ \A frame_id \in Frames, name \in Names, value \in Values,
                value_order \in Orders :
                CreateSlot(frame_id, name, value, value_order)
                => result'.err = "frozen" /\ UNCHANGED <<Slot, Slot_versions>>
          /\ \A slot_id \in 1 .. MaxSlots, value \in NewValues,
                value_order \in Orders :
                UpdateSlot(slot_id, value, value_order)
                => result'.err = "frozen" /\ UNCHANGED <<Slot, Slot_versions>>
          /\ \A frame_id \in Frames, name \in Names, values \in ValueLists :
                CreateList(frame_id, name, values)
                => result'.err = "frozen" /\ UNCHANGED <<Slot, Slot_versions>>
      ]_vars

\* C10: delete_slot called on a frozen version object raises and leaves the
\* value of the slot as it was.
C10_FrozenDeleteRaises ==
    [][\A slot_id \in 1 .. MaxSlots :
          (DeleteSlot(slot_id) /\ ctx.built /\ ctx.frozen)
          => /\ result'.err # "none"
             /\ Slot'[slot_id].value = Slot[slot_id].value]_vars

\* C11: delete_slot on a slot whose version set differs from the active
\* version_ids leaves the value of the existing row as it was and writes
\* <DELETED> to a new row linked to exactly the active version_ids; the
\* existing row is overwritten with <DELETED> only when the sets are equal.
C11_DeleteSelectsPath ==
    [][\A slot_id \in 1 .. MaxSlots :
          DeleteSlot(slot_id) =>
             IF SlotVersionIds(slot_id) = ctx.version_ids
             THEN /\ Slot'[slot_id].value = DELETED
                  /\ Len(Slot') = Len(Slot)
             ELSE /\ Slot'[slot_id].value = Slot[slot_id].value
                  /\ Len(Slot') = Len(Slot) + 1
                  /\ Slot'[Len(Slot')].value = DELETED
                  /\ {e[2] : e \in {x \in Slot_versions' : x[1] = Len(Slot')}}
                     = ctx.version_ids]_vars

\* ------------------------------------------ claims about lookup_version_ids
\* C19: at_versions with names of which one or more match no stored version
\* fails with one error that carries exactly the names that are missing, and
\* builds no version object.
C19_AllMissingNamesListed ==
    [][\A version_names \in SUBSET (1 .. MaxVersions) :
          ( /\ AtVersions(version_names)
            /\ \E n \in version_names : n \notin 1 .. Len(Version) )
          => /\ result'.err = "names_not_found"
             /\ result'.ret = {n \in version_names : n \notin 1 .. Len(Version)}
             /\ ctx' = ctx]_vars

\* C19 witness: a failed at_versions that reported two missing names.
C19_Witness ==
    /\ result.op = "at_versions"
    /\ result.err = "names_not_found"
    /\ Cardinality(result.ret) >= 2

\* C20: the frozen flag of a version object built by at_versions is false
\* exactly when one of the versions named has status proposed, whatever the
\* status of the versions that are only required.
C20_FrozenIffNoNamedProposed ==
    [][\A version_names \in SUBSET (1 .. MaxVersions) :
          ( /\ AtVersions(version_names)
            /\ version_names \subseteq 1 .. Len(Version) )
          => ( ctx'.frozen = FALSE
               <=> \E v \in version_names : Version[v].status = "proposed" )
      ]_vars

\* C20 witness: a version object just built that is frozen although a
\* version it requires without naming it is proposed.
C20_Witness ==
    /\ result.op = "at_versions" /\ result.err = "none"
    /\ ctx.built /\ ctx.frozen
    /\ \E v \in ctx.required_versions \ ctx.version_ids :
          Version[v].status = "proposed"

\* ------------------------------------------------ frames and their own rows
\* the rows frame f itself holds under a name
OwnRows(f, name) ==
    {s \in SlotIds : Slot[s].frame_id = f /\ Upper(Slot[s].name) = Upper(name)}
Has(f, name) == OwnRows(f, name) # {}
OwnRow(f, name) == CHOOSE s \in OwnRows(f, name) : TRUE
OwnDeleted(f, name) == Has(f, name) /\ Slot[OwnRow(f, name)].value = DELETED
Supplies(f, name) == Has(f, name) /\ Slot[OwnRow(f, name)].value # DELETED
\* the frame the ako or isa slot of f names, 0 when f names none
Link(f, name) ==
    IF Has(f, name) /\ IsRef(Slot[OwnRow(f, name)].value)
    THEN RefTarget(Slot[OwnRow(f, name)].value)
    ELSE 0

RECURSIVE NearestAko(_, _)
\* the first frame after f along its ako links that has an own row for the
\* name, 0 when the links end before one is met
NearestAko(f, name) ==
    IF Link(f, "ako") = 0 THEN 0
    ELSE IF Has(Link(f, "ako"), name) THEN Link(f, "ako")
    ELSE NearestAko(Link(f, "ako"), name)

RECURSIVE AkoChain(_)
\* f and the frames after it along its ako links; none for f = 0
AkoChain(f) == IF f = 0 THEN {} ELSE {f} \cup AkoChain(Link(f, "ako"))

RECURSIVE IsaOnce(_, _)
\* the frames met from f over ako links and, while may_isa, one isa link
IsaOnce(f, may_isa) ==
    IF f = 0 THEN {}
    ELSE {f} \cup IsaOnce(Link(f, "ako"), may_isa)
             \cup (IF may_isa THEN IsaOnce(Link(f, "isa"), FALSE) ELSE {})

\* the frame whose row the last get_slot returned
Supplier == Slot[result.ret[1]].frame_id
GotSlot == result.op = "get_slot" /\ result.err = "none"

C13_NearestAkoSupplies ==
    ( /\ result.op = "get_slot"
      /\ ~ Has(result.frame_id, result.name)
      /\ Upper(result.name) \notin {"FRAME_NAME", "AKO"}
      /\ NearestAko(result.frame_id, result.name) # 0
      /\ Supplies(NearestAko(result.frame_id, result.name), result.name) )
    => /\ result.err = "none"
       /\ result.ret = <<OwnRow(NearestAko(result.frame_id, result.name),
                                 result.name)>>

\* a chain of two ako links: the frame in between has no size, the last has
C13_Witness ==
    /\ GotSlot
    /\ result.name = "size"
    /\ ~ Has(result.frame_id, "size")
    /\ Link(result.frame_id, "ako") # 0
    /\ ~ Has(Link(result.frame_id, "ako"), "size")
    /\ NearestAko(result.frame_id, "size")
          = Link(Link(result.frame_id, "ako"), "ako")
    /\ Supplier = NearestAko(result.frame_id, "size")

\* C14 as stated: the isa link is followed on F alone, so the row get_slot
\* returns is held by F, by a frame of F's ako chain, or by a frame of the
\* ako chain of the frame F's isa link names.
C14_IsaOnlyOnAskedFrame ==
    GotSlot =>
        Supplier \in AkoChain(result.frame_id)
                        \cup AkoChain(Link(result.frame_id, "isa"))

\* C14 amended: isa links are followed on F and on the frames reached from F
\* by ako links alone; after one isa link no further isa link is followed.
C14_IsaOncePerPath ==
    GotSlot => Supplier \in IsaOnce(result.frame_id, TRUE)

\* F -isa-> G -isa-> H, size held by H alone: get_slot(F, size) failed
C14_Witness ==
    /\ result.op = "get_slot"
    /\ result.name = "size"
    /\ result.err = "AttributeError"
    /\ Link(result.frame_id, "isa") # 0
    /\ Link(Link(result.frame_id, "isa"), "isa") # 0
    /\ Supplies(Link(Link(result.frame_id, "isa"), "isa"), "size")
    /\ \A f \in {result.frame_id, Link(result.frame_id, "isa")} :
          ~ Has(f, "size") /\ ~ Has(f, "ako")

\* C15: when F has no own row for n and both a frame of its ako chain and
\* the frame its isa link names hold a value for n, get_slot(F, n) returns the
\* row of the isa frame.
C15_IsaValueWins ==
    ( /\ result.op = "get_slot"
      /\ ~ Has(result.frame_id, result.name)
      /\ NearestAko(result.frame_id, result.name) # 0
      /\ Supplies(NearestAko(result.frame_id, result.name), result.name)
      /\ Link(result.frame_id, "isa") # 0
      /\ Supplies(Link(result.frame_id, "isa"), result.name) )
    => /\ result.err = "none"
       /\ result.ret = <<OwnRow(Link(result.frame_id, "isa"), result.name)>>

\* ------------------------------------------------------- claims about lists
\* strictly ascending by list position
Ascending(raw_slots) ==
    \A k \in 1 .. Len(raw_slots) - 1 :
        NumLess(raw_slots[k].value_order, raw_slots[k + 1].value_order)
\* the rows a list object holds
HeldRows(list) == {list.raw_slots[k].slot_id : k \in DOMAIN list.raw_slots}
\* the list rows frame f holds under name
OwnListRows(f, name) ==
    {s \in OwnRows(f, name) : Slot[s].value_order # PyNone}
\* the live list rows of the frames that f names by its ako and isa slots
InheritedListRows(f, name) ==
    {s \in OwnListRows(Link(f, "ako"), name)
           \cup OwnListRows(Link(f, "isa"), name) : Slot[s].value # DELETED}
\* no row among rows names a frame, so nothing is spliced
NoFrameValues(rows) == \A s \in rows : ~ IsRef(Slot[s].value)
GotDynamicList ==
    /\ result.op = "get_dynamic_list"
    /\ result.err = "none"
    /\ some_slot_list.cls = "dynamic_slot_list"

\* C16: the materialized list for a list-valued slot of frame F contains F's
\* own rows and every row inherited through ako or isa whose position no own
\* row occupies, in strictly ascending order of position.
C16_MergedWithInherited ==
    LET F == result.frame_id
        own == OwnListRows(F, result.name)
        inherited == InheritedListRows(F, result.name)
    IN  (GotDynamicList /\ NoFrameValues(own \cup inherited))
        => /\ HeldRows(some_slot_list) =
                own \cup {s \in inherited :
                             \A t \in own :
                                 Slot[t].value_order # Slot[s].value_order}
           /\ Ascending(some_slot_list.raw_slots)

\* the index, counted from 1, at which the step spliced or inserted
SteppedAt == IF result'.op = "insert" /\ result'.is_none
             THEN Len(some_slot_list.raw_slots) + 1
             ELSE result'.i + 1
\* copies the splice step put in place of one element
CopiesMade == Len(some_slot_list'.raw_slots) - Len(some_slot_list.raw_slots) + 1
SpliceStep ==
    /\ result'.op = "splice"
    /\ result'.err = "none"
    /\ some_slot_list # NoList
    /\ some_slot_list' # some_slot_list

\* C17: when a list of n >= 1 elements is spliced in place of the element at
\* position p whose right neighbour is at position q > p, the n copies get
\* positions strictly between p and q, in the order of the spliced list and
\* pairwise distinct, and an ascending list stays strictly ascending.
C17_SplicedBetween ==
    [][ ( /\ SpliceStep
          /\ CopiesMade >= 1
          /\ SteppedAt < Len(some_slot_list.raw_slots)
          /\ NumLess(some_slot_list.raw_slots[SteppedAt].value_order,
                     some_slot_list.raw_slots[SteppedAt + 1].value_order) )
        => LET p == some_slot_list.raw_slots[SteppedAt].value_order
               q == some_slot_list.raw_slots[SteppedAt + 1].value_order
               new == some_slot_list'.raw_slots
               copies == SteppedAt .. SteppedAt + CopiesMade - 1
           IN  /\ \A k \in copies :
                     /\ NumLess(p, new[k].value_order)
                     /\ NumLess(new[k].value_order, q)
               /\ \A k \in copies \ {SteppedAt} :
                     NumLess(new[k - 1].value_order, new[k].value_order)
               /\ Ascending(some_slot_list.raw_slots) => Ascending(new)
      ]_vars

InsertStep ==
    /\ result'.op = "insert"
    /\ result'.err = "none"
    /\ Len(some_slot_list'.raw_slots) = Len(some_slot_list.raw_slots) + 1

\* C18: slot_list.insert(value, i) on a non-empty list in ascending order
\* leaves the list strictly ascending by position, the new row strictly
\* between its two neighbours (one above the last at the end, one below the
\* first at the front), and every row that was there at its position.
C18_InsertKeepsOrder ==
    [][ (InsertStep /\ Ascending(some_slot_list.raw_slots))
        => LET old == some_slot_list.raw_slots
               new == some_slot_list'.raw_slots
               at == SteppedAt
           IN  /\ Ascending(new)
               /\ at > 1 => NumLess(old[at - 1].value_order,
                                    new[at].value_order)
               /\ at <= Len(old) => NumLess(new[at].value_order,
                                            old[at].value_order)
               /\ at = Len(old) + 1 =>
                     new[at].value_order =
                        NumAdd(old[Len(old)].value_order, Num(1))
               /\ (at = 1 /\ ~ result'.is_none) =>
                     new[at].value_order =
                        NumSub(old[1].value_order, Num(1))
               /\ SubSeq(new, 1, at - 1) \o SubSeq(new, at + 1, Len(new)) = old
      ]_vars

\* ----------------------------------------------- claims about frame search
RECURSIVE Satisfies(_, _, _)
\* frame f satisfies the criterion (name, value): its own slot holds the
\* value, or it has no own row and the frame its ako slot names satisfies it
Satisfies(f, name, value) ==
    IF f = 0 THEN FALSE
    ELSE IF Has(f, name) THEN Slot[OwnRow(f, name)].value = value
    ELSE Satisfies(Link(f, "ako"), name, value)

\* C21: frame_ids_with_slots(name=value) returns exactly the frames whose own
\* slot of that name equals the value or that derive through ako links from
\* such a frame and have no own row for the slot.
C21_ExactlySatisfying ==
    result.op = "frame_ids_with_slots"
    => /\ result.err = "none"
       /\ result.ret = {f \in 1 .. MaxFrames :
                           Satisfies(f, result.name, result.value)}

\* ------------------------------------------------- claims about better_fit
\* C22: whenever better_fit(A, B) is true, every version of B is a member of
\* A or is required, directly or through other versions, by a member of A.
C22_BetterCoversOther ==
    ctx.built =>
        \A A \in VersionSets(ctx), B \in VersionSets(ctx) :
            better_fit(ctx, A, B) => B \subseteq A \cup ReachableFrom(A)

\* ------------------------------------------ claims about narrower filters
\* C23: under a filter narrower than a frame, a row is returned only when it
\* matches the filter and is a better fit than every other stored eligible
\* row of its key (frame, name, list_position), rows that do not match the
\* filter included, for keys without a list position as for list keys.
C23_FilteredRowIsBest ==
    ( /\ result.op = "select_slot_ids_by_version"
      /\ result.err = "none" )
    => \A s \in result.ret :
          /\ Slot[s].value = result.value
          /\ \A t \in Candidates(ctx, PyKey(s)) \ {s} :
                better_fit(ctx, SlotVersionIds(s), SlotVersionIds(t))

\* -------------------------------------------- claims about the updated row
\* C24: when update_slot(slot_id, value, position) takes the new-row path,
\* the new row has the frame_id and the name of the old row, the given value
\* as its value and the given position as its list position.
C24_NewRowHoldsArguments ==
    [][\A slot_id \in 1 .. MaxSlots, value \in NewValues,
          value_order \in Orders :
          ( /\ UpdateSlot(slot_id, value, value_order)
            /\ TakesNewRowPath(ctx, slot_id)
            /\ result'.err = "none" )
          => /\ result'.ret \in 1 .. Len(Slot')
             /\ Slot'[result'.ret] =
                   [frame_id |-> Slot[slot_id].frame_id,
                    name |-> Slot[slot_id].name,
                    value_order |-> value_order,
                    value |-> value]]_vars

\* ------------------------------------------------- claims about do_splicing
\* frame g is a splice frame: its splice slot is true
IsSpliceFrame(g) ==
    \E s \in 1 .. Len(Slot) :
        /\ Slot[s].frame_id = g
        /\ Slot[s].name = "splice"
        /\ Slot[s].value = TrueStr
\* row s names a splice frame
NamesSpliceFrame(s) ==
    IsRef(Slot[s].value) /\ IsSpliceFrame(RefTarget(Slot[s].value))
\* frame g holds no row of the slot
LacksSlot(g, name) == OwnListRows(g, name) = {}

\* C25: when do_splicing returns, no element of the list names a frame whose
\* splice slot is true; of the frame's own rows exactly those that name no
\* splice frame are left, and an element naming a splice frame that lacks
\* the list slot is removed and puts nothing in its place.
C25_NoSpliceFrameLeft ==
    LET own == OwnListRows(result.frame_id, result.name)
        held == HeldRows(some_slot_list)
    IN  GotDynamicList
        => /\ \A s \in held : ~ NamesSpliceFrame(s)
           /\ held \cap own = {s \in own : ~ NamesSpliceFrame(s)}
           /\ ( \A s \in own :
                   NamesSpliceFrame(s)
                   => LacksSlot(RefTarget(Slot[s].value), result.name) )
              => /\ held \subseteq own
                      \cup InheritedListRows(result.frame_id, result.name)
                 /\ Len(some_slot_list.raw_slots) = Cardinality(held)

\* a list was built whose frame names a splice frame that in turn names a
\* splice frame, and the copies of both are in it
C25_Witness ==
    /\ GotDynamicList
    /\ \E s \in OwnListRows(result.frame_id, result.name) :
          /\ NamesSpliceFrame(s)
          /\ \E t \in OwnListRows(RefTarget(Slot[s].value), result.name) :
                /\ NamesSpliceFrame(t)
                /\ \E u \in OwnListRows(RefTarget(Slot[t].value),
                                        result.name) :
                      u \in HeldRows(some_slot_list)
    /\ Len(some_slot_list.raw_slots) > MaxHeld

\* a list was built whose frame named a splice frame that lacks the slot
C25_RemovedReached ==
    /\ GotDynamicList
    /\ \E s \in OwnListRows(result.frame_id, result.name) :
          /\ NamesSpliceFrame(s)
          /\ LacksSlot(RefTarget(Slot[s].value), result.name)
    /\ Len(some_slot_list.raw_slots) = 1

\* ------------------------------------------- claims about version conflicts
\* no version requires itself, directly or through others
RequiresAcyclic == \A v \in DOMAIN Version : <<v, v>> \notin RequiresPlus

\* C26: over a store whose Requires relation is acyclic, get_raw_frame never
\* raises 'Impossible slot version conflict', whatever the version context,
\* for scalar keys and for list-position keys with several competing rows.
C26_NeverImpossibleConflict ==
    (result.op = "get_raw_frame" /\ RequiresAcyclic)
    => result.err # "impossible_conflict"

\* ---------------------------------------------- claims about the slot names
\* C27: for a frame F and a slot name n, n is in F.get_slot_names() if and
\* only if F.get_raw_slot_inherited(n) does not raise not-found, whatever the
\* acyclic ako and isa links and wherever the '<DELETED>' rows are.
C27_NamedIffFound ==
    (result.op = "get_slot_names" /\ result.err = "none")
    => LET F == get_frame(ctx, result.frame_id).frame
       IN  \A i \in 1 .. Len(SlotNames) :
               Upper(SlotNames[i]) \in result.ret
               <=> get_raw_slot_inherited(ctx, F, SlotNames[i], TRUE).err
                      # "AttributeError"

\* ------------------------------------------- claims about the version tables
\* C28: a version whose status is final keeps it through every version
\* change operation, and a change that sets it to another status raises.
C28_FinalStaysFinal ==
    [][\A v \in DOMAIN Version :
          Version[v].status = "final"
          => /\ Version'[v].status = "final"
             /\ \A value \in Statuses \ {"final"} :
                   LoadChangeVersions(v, value)
                   => /\ result'.op = "load_change_versions"
                      /\ result'.err # "none"]_vars

\* a change of a final version to another status was refused
C28_Witness ==
    /\ result.op = "load_change_versions"
    /\ result.err = "final_status"
    /\ \E v \in DOMAIN Version : Version[v].status = "final"

\* C29: after any sequence of add-version operations no version requires
\* itself, directly or through others: every Requires edge goes from a
\* version to a distinct version that existed before it.
C29_RequiresIsDag ==
    /\ RequiresAcyclic
    /\ \A e \in Version_requires : e[2] \in DOMAIN Version /\ e[2] < e[1]

\* ------------------------------------------ claims about version_obj contexts
\* C30: when entering a version_obj context fails, because the version name
\* does not exist or because for_update is asked on a version that is not
\* proposed, the connection is left with no open transaction and no
\* transaction attribute, and a later context can be entered on it.
C30_FailedEnterLeavesIdle ==
    [][\A version_name \in 1 .. MaxVersions, for_update \in BOOLEAN :
          Enter(version_name, for_update)
          => /\ result'.err \in {"no_row_found", "not_proposed"}
                => db_conn' = Idle
             /\ ( /\ version_name \in VersionIds
                  /\ ~ for_update \/ Version[version_name].status = "proposed" )
                => result'.err = "none"]_vars
====
